---- MODULE Spec2Model ----
(***************************************************************************)
(* NeomerDB backend (Go, gin + DuckDB): a model of the request handlers of *)
(* main.go, the SQL they build and what the engine answers.                *)
(*                                                                         *)
(* Strings are sequences of one-character strings, so that splitting,      *)
(* parsing and sanitising are computed character by character as the Go    *)
(* standard library does.  An absent query parameter is the empty string   *)
(* (gin's c.Query returns "" for it).                                      *)
(***************************************************************************)
EXTENDS Integers, Sequences, FiniteSets, TLC

VARIABLES
    db,         \* contents of the DuckDB file (read-only while serving)
    req,        \* the request being answered: endpoint and query parameters
    resp,       \* the response written by the handler
    queries,    \* the queries the handler sent to the engine, in order
    history,    \* earlier answers of the paginated endpoint (page comparisons)
    sequence,   \* a nullomers_created value fed to the gc_content expression
    gc          \* the gc_content the base query computes for it

vars == <<db, req, resp, queries, history, sequence, gc>>

None == "none"
NULL == "NULL"

(***************************************************************************)
(* Go strings                                                              *)
(***************************************************************************)
Digits == <<"0", "1", "2", "3", "4", "5", "6", "7", "8", "9">>

IsDigit(ch) == \E i \in 1..10 : Digits[i] = ch

DigitVal(ch) == (CHOOSE i \in 1..10 : Digits[i] = ch) - 1

Lower == <<"a","b","c","d","e","f","g","h","i","j","k","l","m",
           "n","o","p","q","r","s","t","u","v","w","x","y","z">>
Upper == <<"A","B","C","D","E","F","G","H","I","J","K","L","M",
           "N","O","P","Q","R","S","T","U","V","W","X","Y","Z">>

IsLower(ch) == \E i \in 1..26 : Lower[i] = ch
IsUpper(ch) == \E i \in 1..26 : Upper[i] = ch

\* SQL UPPER() / Go strings.ToUpper on one character
ToUpperChar(ch) ==
    IF IsLower(ch) THEN Upper[CHOOSE i \in 1..26 : Lower[i] = ch] ELSE ch

UPPER(s) == [i \in 1..Len(s) |-> ToUpperChar(s[i])]

\* SQL REPLACE(s, ch, '') for a one-character pattern
RECURSIVE REPLACE(_, _)
REPLACE(s, ch) ==
    IF s = <<>> THEN <<>>
    ELSE IF Head(s) = ch THEN REPLACE(Tail(s), ch)
    ELSE <<Head(s)>> \o REPLACE(Tail(s), ch)

LENGTH(s) == Len(s)

(***************************************************************************)
(* gc_content of the base CTE                                              *)
(***************************************************************************)
\* integer division truncating toward zero (n may be negative, d > 0)
TruncDiv(n, d) == IF n >= 0 THEN n \div d ELSE -((-n) \div d)

\* ROUND(n/d, places) of the engine: half away from zero; the result is
\* returned as an integer number of 10^-places units (scale = 10^places)
RoundScaled(n, d, scale) ==
    LET m == 2 * n * scale
        q == TruncDiv(m, 2 * d)
        r == m - q * 2 * d
    IN  IF r >= d THEN q + 1
        ELSE IF -r >= d THEN q - 1
        ELSE q

\* LENGTH(s) - LENGTH(REPLACE(UPPER(s),'G','')) - LENGTH(REPLACE(UPPER(s),'C',''))
gc_numerator(s) ==
    LENGTH(s) - LENGTH(REPLACE(UPPER(s), "G")) - LENGTH(REPLACE(UPPER(s), "C"))

\* ROUND(100.0 * numerator / LENGTH(s), 2) * -1, in hundredths
gc_content(s) == RoundScaled(100 * gc_numerator(s), LENGTH(s), 100) * (-1)

(***************************************************************************)
(* Sequences fed to the expression: lengths of the per-length tables       *)
(***************************************************************************)
MinLength == 11
MaxLength == 20

Rep(ch, n) == [i \in 1..n |-> ch]

\* case of the i-th character: 0 all upper, 1 all lower, 2 alternating
LowerAt(mode, i) == mode = 1 \/ (mode = 2 /\ i % 2 = 0)

\* g G's, c C's and the rest A/T, in the given case mode
BuildSequence(len, g, c, mode) ==
    [i \in 1..len |->
        IF i <= g THEN (IF LowerAt(mode, i) THEN "g" ELSE "G")
        ELSE IF i <= g + c THEN (IF LowerAt(mode, i) THEN "c" ELSE "C")
        ELSE IF i % 3 = 0 THEN (IF LowerAt(mode, i) THEN "t" ELSE "T")
        ELSE (IF LowerAt(mode, i) THEN "a" ELSE "A")]

SequenceInputs ==
    UNION { UNION { { BuildSequence(len, g, c, mode) :
                        c \in 0..(len - g), mode \in 0..2 } :
                    g \in 0..len } :
            len \in MinLength..MaxLength }

(***************************************************************************)
(* strconv.Atoi                                                            *)
(***************************************************************************)
AllDigits(s) == \A i \in 1..Len(s) : IsDigit(s[i])

RECURSIVE DigitsValue(_, _)
DigitsValue(s, acc) ==
    IF s = <<>> THEN acc ELSE DigitsValue(Tail(s), 10 * acc + DigitVal(Head(s)))

\* [ok, val]: ok is (err == nil); an optional sign, then one or more digits
Atoi(s) ==
    IF s = <<>> THEN [ok |-> FALSE, val |-> 0]
    ELSE LET signed == Head(s) = "-" \/ Head(s) = "+"
             body   == IF signed THEN Tail(s) ELSE s
         IN  IF body = <<>> \/ ~AllDigits(body)
             THEN [ok |-> FALSE, val |-> 0]
             ELSE [ok  |-> TRUE,
                   val |-> IF Head(s) = "-" THEN -DigitsValue(body, 0)
                           ELSE DigitsValue(body, 0)]

\* fmt.Sprintf("%d", n) for n >= 0
RECURSIVE Itoa(_)
Itoa(n) ==
    IF n < 10 THEN <<Digits[n + 1]>> ELSE Itoa(n \div 10) \o <<Digits[(n % 10) + 1]>>

(***************************************************************************)
(* strings.Split, strings.Fields, strings.TrimSpace, strings.ToLower        *)
(***************************************************************************)
HasPrefixAt(s, i, sep) ==
    i + Len(sep) - 1 <= Len(s) /\ SubSeq(s, i, i + Len(sep) - 1) = sep

\* strings.Index, 1-based; 0 when sep does not occur (sep is not empty)
Index(s, sep) ==
    IF \E i \in 1..Len(s) : HasPrefixAt(s, i, sep)
    THEN CHOOSE i \in 1..Len(s) :
            HasPrefixAt(s, i, sep) /\ \A j \in 1..(i - 1) : ~HasPrefixAt(s, j, sep)
    ELSE 0

\* strings.Split(s, sep): always at least one piece
RECURSIVE Split(_, _)
Split(s, sep) ==
    LET i == Index(s, sep)
    IN  IF i = 0 THEN <<s>>
        ELSE <<SubSeq(s, 1, i - 1)>> \o Split(SubSeq(s, i + Len(sep), Len(s)), sep)

IsSpace(ch) == ch \in {" ", "\t"}

RECURSIVE TrimLeft(_)
TrimLeft(s) == IF s # <<>> /\ IsSpace(Head(s)) THEN TrimLeft(Tail(s)) ELSE s

RECURSIVE TrimRight(_)
TrimRight(s) ==
    IF s # <<>> /\ IsSpace(s[Len(s)]) THEN TrimRight(SubSeq(s, 1, Len(s) - 1)) ELSE s

TrimSpace(s) == TrimRight(TrimLeft(s))

\* length of the longest prefix of s without white space
RECURSIVE WordLen(_)
WordLen(s) == IF s = <<>> \/ IsSpace(Head(s)) THEN 0 ELSE 1 + WordLen(Tail(s))

\* strings.Fields(s): the maximal runs of non-space characters
RECURSIVE Fields(_)
Fields(s) ==
    LET t == TrimLeft(s)
    IN  IF t = <<>> THEN <<>>
        ELSE <<SubSeq(t, 1, WordLen(t))>> \o Fields(SubSeq(t, WordLen(t) + 1, Len(t)))

ToLowerChar(ch) ==
    IF IsUpper(ch) THEN Lower[CHOOSE i \in 1..26 : Upper[i] = ch] ELSE ch

ToLower(s) == [i \in 1..Len(s) |-> ToLowerChar(s[i])]

\* strings.Join(parts, sep)
RECURSIVE Join(_, _)
Join(parts, sep) ==
    IF parts = <<>> THEN <<>>
    ELSE IF Len(parts) = 1 THEN parts[1]
    ELSE parts[1] \o sep \o Join(Tail(parts), sep)

(***************************************************************************)
(* removeParentheses, cleanColumnName, isNumericColumn                     *)
(***************************************************************************)
\* regexp [()] replaced by ""
removeParentheses(input) == SelectSeq(input, LAMBDA ch : ch \notin {"(", ")"})

IsIdentChar(ch) == IsLower(ch) \/ IsUpper(ch) \/ IsDigit(ch) \/ ch = "_"

\* regexp [^a-zA-Z0-9_] replaced by "", then strings.TrimSpace
cleanColumnName(column) == TrimSpace(SelectSeq(column, IsIdentChar))

Col_donor_age_at_diagnosis == <<"d", "o", "n", "o", "r", "_", "a", "g", "e", "_", "a", "t", "_", "d", "i", "a", "g", "n", "o", "s", "i", "s">>
Col_gc_content             == <<"g", "c", "_", "c", "o", "n", "t", "e", "n", "t">>
Col_nullomers_created      == <<"n", "u", "l", "l", "o", "m", "e", "r", "s", "_", "c", "r", "e", "a", "t", "e", "d">>
Col_donor_id               == <<"d", "o", "n", "o", "r", "_", "i", "d">>
Col_AF                     == <<"A", "F">>
Col_AF_eas                 == <<"A", "F", "_", "e", "a", "s">>
Col_AF_afr                 == <<"A", "F", "_", "a", "f", "r">>
Col_AF_fin                 == <<"A", "F", "_", "f", "i", "n">>
Col_AF_ami                 == <<"A", "F", "_", "a", "m", "i">>
Col_AF_amr                 == <<"A", "F", "_", "a", "m", "r">>
Col_AF_nfe                 == <<"A", "F", "_", "n", "f", "e">>
Col_AF_sas                 == <<"A", "F", "_", "s", "a", "s">>
Col_AF_asj                 == <<"A", "F", "_", "a", "s", "j">>

\* the columnTypes map, as pairs <<column, type>>
columnTypes ==
    { <<Col_donor_age_at_diagnosis, "BIGINT">>, <<Col_gc_content, "FLOAT">>,
      <<Col_nullomers_created, "VARCHAR">>, <<Col_donor_id, "VARCHAR">>,
      <<Col_AF, "FLOAT">>, <<Col_AF_eas, "FLOAT">>, <<Col_AF_afr, "FLOAT">>,
      <<Col_AF_fin, "FLOAT">>, <<Col_AF_ami, "FLOAT">>, <<Col_AF_amr, "FLOAT">>,
      <<Col_AF_nfe, "FLOAT">>, <<Col_AF_sas, "FLOAT">>, <<Col_AF_asj, "FLOAT">> }

numericTypes == {"BIGINT", "INTEGER", "FLOAT", "DOUBLE"}

isNumericColumn(column) ==
    \E ct \in columnTypes : ct[1] = cleanColumnName(column) /\ ct[2] \in numericTypes

(***************************************************************************)
(* The database                                                            *)
(*   neomers  : rows of neomers_K / exome_neomers_K                        *)
(*              [seq, donor, project, af]; af is <<>> for NULL, <<v>> else *)
(*   details  : cancer_type_details, Project_Code -> [Cancer_Type, Organ], *)
(*              or Absent when the project has no row                      *)
(*   mapping  : donor_id_mapping / exomes_donor_id_mapping, Donor_ID ->    *)
(*              <<Actual_Donor_ID>>, or <<>> when the Donor_ID has no row  *)
(*   donors   : donor_data / exome_donor_data, Actual_Donor_ID ->          *)
(*              [Cancer_Type, Organ], or Absent when the donor has no row  *)
(* The file holds one table per length MinLength..MaxLength.               *)
(***************************************************************************)
Absent == [present |-> FALSE, Cancer_Type |-> NULL, Organ |-> NULL]

Detail(ct, organ) == [present |-> TRUE, Cancer_Type |-> ct, Organ |-> organ]

\* the table a query names: a fixed prefix and the interpolated length
Table(prefix, suffix) == [prefix |-> prefix, suffix |-> suffix]

\* the engine finds the table only when the suffix is the decimal numeral
\* of a length that has a table
TableExists(t) == \E k \in MinLength..MaxLength : t.suffix = Itoa(k)

\* SQL equality: never true when either side is NULL
SqlEq(x, y) == x # NULL /\ y # NULL /\ x = y

(***************************************************************************)
(* FROM clauses.  A join names its table, its alias ("" when the query     *)
(* gives none), its kind and the aliases its ON condition refers to.       *)
(***************************************************************************)
JoinOf(table, alias, kind, refs) ==
    [table |-> table, alias |-> alias, kind |-> kind, refs |-> refs]

FromOf(table, alias, joins) == [table |-> table, alias |-> alias, joins |-> joins]

\* FROM neomers_%s n JOIN cancer_type_details c USING (Project_Code)
\* LEFT JOIN donor_id_mapping di ON CAST(n."Donor_ID" AS INT) = di."Donor_ID"
\* LEFT JOIN donor_data d ON di.Actual_Donor_ID = d.icgc_donor_id
GenomeBaseFrom(length) ==
    FromOf(Table("neomers_", length), "n",
           << JoinOf("cancer_type_details", "c", "JOIN", {}),
              JoinOf("donor_id_mapping", "di", "LEFT JOIN", {"n", "di"}),
              JoinOf("donor_data", "d", "LEFT JOIN", {"di", "d"}) >>)

\* FROM exome_neomers_%s AS n JOIN exomes_donor_id_mapping AS di ON ...
\* LEFT JOIN exome_donor_data AS d ON di.Actual_Donor_ID = d.bcr_patient_barcode
ExomeBaseFrom(length) ==
    FromOf(Table("exome_neomers_", length), "n",
           << JoinOf("exomes_donor_id_mapping", "di", "JOIN", {"n", "di"}),
              JoinOf("exome_donor_data", "d", "LEFT JOIN", {"di", "d"}) >>)

\* the IN (...) subquery of the genome special filter: no alias on the
\* first two tables, the ON condition of the third still written with n.
GenomeDistinctPatientsFrom(length) ==
    FromOf(Table("neomers_", length), "",
           << JoinOf("cancer_type_details", "", "JOIN", {}),
              JoinOf("donor_id_mapping", "di", "LEFT JOIN", {"n", "di"}),
              JoinOf("donor_data", "d", "LEFT JOIN", {"di", "d"}) >>)

\* the IN (...) subquery of the exome special filter: the table alone
ExomeDistinctPatientsFrom(length) == FromOf(Table("exome_neomers_", length), "", <<>>)

\* SELECT nullomers_created FROM ... GROUP BY nullomers_created
\* HAVING COUNT(DISTINCT <countCol>) >= n
Subquery(from, countCol, n) == [from |-> from, countCol |-> countCol, n |-> n]

NoSubquery == Subquery(FromOf(Table("", <<>>), "", <<>>), "", 0)

(***************************************************************************)
(* Filter compiler: the elements of whereClauses / whereParts              *)
(*   kind "cmp" : CAST("col" AS FLOAT) op val [AND ...], one per atom      *)
(*   kind "raw" : the client's text as it stands                           *)
(*   kind "in"  : nullomers_created IN (subquery)                          *)
(***************************************************************************)
Cmp(col, op, val) == [col |-> col, op |-> op, val |-> val]

Clause(channel, kind, atoms, text, sub) ==
    [channel |-> channel, kind |-> kind, atoms |-> atoms, text |-> text, sub |-> sub]

Str_between == <<"b", "e", "t", "w", "e", "e", "n">>
Str_at_least_X_distinct_patients == <<"a", "t", "_", "l", "e", "a", "s", "t", "_", "X", "_", "d", "i", "s", "t", "i", "n", "c", "t", "_", "p", "a", "t", "i", "e", "n", "t", "s">>
Str_AND == <<" ", "A", "N", "D", " ">>
Op_GE == <<">", "=">>
Op_LE == <<"<", "=">>

\* a range clause that keeps the lower bound only
BetweenClause_lower_only(column, minVal, maxVal) ==
    Clause("range", "cmp", <<Cmp(column, Op_GE, minVal)>>, <<>>, NoSubquery)

\* CAST("%s" AS FLOAT) >= %s AND CAST("%s" AS FLOAT) <= %s
BetweenClause(column, minVal, maxVal) ==
    Clause("range", "cmp",
           <<Cmp(column, Op_GE, minVal), Cmp(column, Op_LE, maxVal)>>, <<>>, NoSubquery)

\* a) the "between" filter: parts := strings.Split(filterValue, ",")
betweenFilter(column, filterValue) ==
    LET parts == Split(filterValue, <<",">>)
    IN  IF Len(parts) = 2 THEN <<BetweenClause(column, parts[1], parts[2])>> ELSE <<>>

\* b) one condition of the legacy "filters" parameter
legacyCondition(cond) ==
    LET parts == Fields(cond)
    IN  IF Len(parts) >= 3
        THEN LET col == cleanColumnName(parts[1])
             IN  IF isNumericColumn(col)
                 THEN <<Clause("legacy", "cmp",
                               <<Cmp(col, parts[2], removeParentheses(parts[3]))>>,
                               <<>>, NoSubquery)>>
                 ELSE <<Clause("legacy", "raw", <<>>, cond, NoSubquery)>>
        ELSE <<>>

RECURSIVE Flatten(_)
Flatten(ss) == IF ss = <<>> THEN <<>> ELSE Head(ss) \o Flatten(Tail(ss))

legacyFilters(filters) ==
    LET conds == Split(filters, Str_AND)
    IN  Flatten([i \in 1..Len(conds) |-> legacyCondition(conds[i])])

\* the if / else-if of the genome handlers
rangeOrLegacy(filters, column, filterType, filterValue) ==
    IF filterType = Str_between /\ column # <<>> /\ filterValue # <<>>
    THEN betweenFilter(column, filterValue)
    ELSE IF filters # <<>> THEN legacyFilters(filters)
    ELSE <<>>

\* a directive read without looking at its name
specialDirective_any_name(part, from, countCol) ==
    LET sf == Split(part, <<";">>)
    IN  IF Len(sf) = 2 /\ Atoi(sf[2]).ok /\ Atoi(sf[2]).val > 0
        THEN <<Clause("special", "in", <<>>, <<>>,
                      Subquery(from, countCol, Atoi(sf[2]).val))>>
        ELSE <<>>

\* c) one directive of specialFilters
specialDirective(part, from, countCol) ==
    LET sf == Split(part, <<";">>)
    IN  IF sf[1] = Str_at_least_X_distinct_patients /\ Len(sf) = 2
           /\ Atoi(sf[2]).ok /\ Atoi(sf[2]).val > 0
        THEN <<Clause("special", "in", <<>>, <<>>,
                      Subquery(from, countCol, Atoi(sf[2]).val))>>
        ELSE <<>>

specialClauses(specialFilters, from, countCol) ==
    IF specialFilters = <<>> THEN <<>>
    ELSE LET directives == Split(specialFilters, <<"|">>)
         IN  Flatten([i \in 1..Len(directives) |->
                        specialDirective(directives[i], from, countCol)])

\* whereClauses of getNullomersHandler and getNullomersStatsHandler
genomeWhereClauses(length, filters, specialFilters, column, filterType, filterValue) ==
    rangeOrLegacy(filters, column, filterType, filterValue)
    \o specialClauses(specialFilters, GenomeDistinctPatientsFrom(length), "donor_id")

(***************************************************************************)
(* The text of the WHERE clause                                            *)
(***************************************************************************)
\* CAST("%s" AS FLOAT) %s %s
CastText(a) == <<"C", "A", "S", "T", "(", "\"">> \o a.col \o <<"\"", " ", "A", "S", " ", "F", "L", "O", "A", "T", ")", " ">> \o a.op \o <<" ">> \o a.val

\* nullomers_created IN ( SELECT ... GROUP BY ... HAVING COUNT(DISTINCT
\* %s) >= %d ), without the joins of the subquery
SubqueryText(sub) ==
    <<"n", "u", "l", "l", "o", "m", "e", "r", "s", "_", "c", "r", "e", "a", "t", "e", "d", " ", "I", "N", " ", "(", "S", "E", "L", "E", "C", "T", " ", "n", "u", "l", "l", "o", "m", "e", "r", "s", "_", "c", "r", "e", "a", "t", "e", "d", " ", "F", "R", "O", "M", " ">>
    \o (IF sub.from.table.prefix = "neomers_" THEN <<"n", "e", "o", "m", "e", "r", "s", "_">> ELSE <<"e", "x", "o", "m", "e", "_", "n", "e", "o", "m", "e", "r", "s", "_">>)
    \o sub.from.table.suffix
    \o <<" ", "G", "R", "O", "U", "P", " ", "B", "Y", " ", "n", "u", "l", "l", "o", "m", "e", "r", "s", "_", "c", "r", "e", "a", "t", "e", "d", " ", "H", "A", "V", "I", "N", "G", " ", "C", "O", "U", "N", "T", "(", "D", "I", "S", "T", "I", "N", "C", "T", " ">>
    \o (IF sub.countCol = "donor_id" THEN <<"d", "o", "n", "o", "r", "_", "i", "d">> ELSE <<"D", "o", "n", "o", "r", "_", "I", "D">>)
    \o <<")", " ", ">", "=", " ">> \o Itoa(sub.n) \o <<")">>

\* the string a handler appends to whereClauses / whereParts
ClauseText(cl) ==
    CASE cl.kind = "cmp" ->
            Join([i \in 1..Len(cl.atoms) |-> CastText(cl.atoms[i])], Str_AND)
      [] cl.kind = "raw" -> cl.text
      [] OTHER -> SubqueryText(cl.sub)

\* a WHERE keyword that is written whatever the list holds
finalWhere_always(where) ==
    <<" ", "W", "H", "E", "R", "E", " ">> \o Join([i \in 1..Len(where) |-> ClauseText(where[i])], Str_AND)

\* finalWhere = " WHERE " + strings.Join(whereClauses, " AND ") when the
\* list is not empty, "" otherwise
finalWhere(where) ==
    IF Len(where) > 0
    THEN <<" ", "W", "H", "E", "R", "E", " ">> \o Join([i \in 1..Len(where) |-> ClauseText(where[i])], Str_AND)
    ELSE <<>>


(***************************************************************************)
(* The exome handlers' rewrite of the filters string:                      *)
(*   \b(numericCols)\s*(>=|<=|>|<|=)\s*([0-9]+(?:\.[0-9]+)?)               *)
(*   replaced by CAST($1 AS DOUBLE) $2 $3                                  *)
(***************************************************************************)
numericCols ==
    << <<"g", "c", "_", "c", "o", "n", "t", "e", "n", "t">>, <<"A", "F">>, <<"A", "F", "_", "e", "a", "s">>, <<"A", "F", "_", "a", "f", "r">>, <<"A", "F", "_", "f", "i", "n">>, <<"A", "F", "_", "a", "m", "i">>,
       <<"A", "F", "_", "a", "m", "r">>, <<"A", "F", "_", "n", "f", "e">>, <<"A", "F", "_", "s", "a", "s">>, <<"A", "F", "_", "a", "s", "j">>,
       <<"d", "a", "y", "s", "_", "t", "o", "_", "b", "i", "r", "t", "h">>, <<"d", "a", "y", "s", "_", "t", "o", "_", "d", "e", "a", "t", "h">>, <<"d", "a", "y", "s", "_", "t", "o", "_", "l", "a", "s", "t", "_", "f", "o", "l", "l", "o", "w", "u", "p">> >>

comparisonOps == << <<">", "=">>, <<"<", "=">>, <<">">>, <<"<">>, <<"=">> >>

\* \b at position i: exactly one of the characters around it is a word character
WordBoundary(s, i) ==
    LET before == i > 1 /\ i - 1 <= Len(s) /\ IsIdentChar(s[i - 1])
        after  == i >= 1 /\ i <= Len(s) /\ IsIdentChar(s[i])
    IN  before # after

\* first position >= j that holds no white space
RECURSIVE SkipSpaces(_, _)
SkipSpaces(s, j) ==
    IF j <= Len(s) /\ IsSpace(s[j]) THEN SkipSpaces(s, j + 1) ELSE j

\* number of digits starting at position j
RECURSIVE DigitRun(_, _)
DigitRun(s, j) ==
    IF j <= Len(s) /\ IsDigit(s[j]) THEN 1 + DigitRun(s, j + 1) ELSE 0

NoMatch == [ok |-> FALSE, stop |-> 0, text |-> <<>>]

\* the match that starts at i with the given column and operator alternatives
MatchWith(s, i, col, op) ==
    IF ~HasPrefixAt(s, i, col) THEN NoMatch
    ELSE LET afterCol == SkipSpaces(s, i + Len(col))
             afterOp  == SkipSpaces(s, afterCol + Len(op))
             whole    == DigitRun(s, afterOp)
             dot      == afterOp + whole
             frac     == IF dot <= Len(s) /\ s[dot] = "." THEN DigitRun(s, dot + 1) ELSE 0
             stop     == IF frac > 0 THEN dot + 1 + frac ELSE dot
         IN  IF ~HasPrefixAt(s, afterCol, op) \/ whole = 0 THEN NoMatch
             ELSE [ok   |-> TRUE,
                   stop |-> stop,
                   text |-> <<"C", "A", "S", "T", "(">> \o col
                            \o <<" ", "A", "S", " ", "D", "O", "U", "B", "L", "E", ")", " ">>
                            \o op \o <<" ">> \o SubSeq(s, afterOp, stop - 1)]

\* alternatives in the order the pattern lists them: column first, then operator
Alternative(k) ==
    [col |-> numericCols[((k - 1) \div Len(comparisonOps)) + 1],
     op  |-> comparisonOps[((k - 1) % Len(comparisonOps)) + 1]]

MatchAt(s, i) ==
    IF ~WordBoundary(s, i) THEN NoMatch
    ELSE LET n    == Len(numericCols) * Len(comparisonOps)
             hits == { k \in 1..n :
                         MatchWith(s, i, Alternative(k).col, Alternative(k).op).ok }
         IN  IF hits = {} THEN NoMatch
             ELSE LET k == CHOOSE x \in hits : \A y \in hits : x <= y
                  IN  MatchWith(s, i, Alternative(k).col, Alternative(k).op)

\* re.ReplaceAllString from position i on
RECURSIVE ReplaceAllFrom(_, _)
ReplaceAllFrom(s, i) ==
    IF i > Len(s) THEN <<>>
    ELSE LET m == MatchAt(s, i)
         IN  IF m.ok THEN m.text \o ReplaceAllFrom(s, m.stop)
             ELSE <<s[i]>> \o ReplaceAllFrom(s, i + 1)

filtersCast(filters) == ReplaceAllFrom(filters, 1)

\* whereParts of getExomeNullomersHandler and getExomeNullomersStatsHandler
exomeWhereParts(length, filters, specialFilters) ==
    (IF filters # <<>>
     THEN <<Clause("legacy", "raw", <<>>, filtersCast(filters), NoSubquery)>>
     ELSE <<>>)
    \o specialClauses(specialFilters, ExomeDistinctPatientsFrom(length), "Donor_ID")

(***************************************************************************)
(* Set-similarity query of getJaccardIndexHandler / ...OrgansHandler       *)
(***************************************************************************)
\* joined_data: n JOIN cancer_type_details c USING (Project_Code)
joined_data(d, labelCol) ==
    { [seq |-> n.seq, label |-> d.details[n.project][labelCol]] :
        n \in { m \in d.neomers : d.details[m.project].present } }

\* cancer_counts / organ_counts: COUNT(DISTINCT nullomers_created) per label
label_count(jd, l) == Cardinality({ r.seq : r \in { x \in jd : x.label = l } })

\* all_cancer_types / all_organs
all_labels(jd) == { r.label : r \in jd }

\* an intersection that forgets the second label of the pair
intersection_seqs_first_label(jd, a, b) == { r.seq : r \in { x \in jd : x.label = a } }

\* intersections: self-join on the sequence, grouped by the two labels
intersection_seqs(jd, a, b) ==
    { r.seq : r \in { x \in jd : x.label = a /\ [seq |-> x.seq, label |-> b] \in jd } }

\* the CASE expression with the quotient cut off after four places
jaccard_case_truncated(a, b, inter, uni) ==
    IF SqlEq(a, b) THEN 10000
    ELSE IF uni = 0 THEN 0
    ELSE (inter * 10000) \div uni

\* the CASE expression, in ten-thousandths
jaccard_case(a, b, inter, uni) ==
    IF SqlEq(a, b) THEN 10000
    ELSE IF uni = 0 THEN 0
    ELSE RoundScaled(inter, uni, 10000)

\* a row whose union leaves out the shared sequences twice
jaccard_row_symmetric_difference(jd, a, b) ==
    LET inter == Cardinality(intersection_seqs(jd, a, b))
        uni   == label_count(jd, a) + label_count(jd, b) - 2 * inter
    IN  [a |-> a, b |-> b, intersection_count |-> inter, union_count |-> uni,
         jaccard_index |-> jaccard_case(a, b, inter, uni)]

\* one row of the final SELECT for the pair (a, b)
jaccard_row(jd, a, b) ==
    LET inter == Cardinality(intersection_seqs(jd, a, b))   \* COALESCE(.., 0)
        uni   == label_count(jd, a) + label_count(jd, b) - inter
    IN  [a |-> a, b |-> b, intersection_count |-> inter, union_count |-> uni,
         jaccard_index |-> jaccard_case(a, b, inter, uni)]

\* rank of a label in ORDER BY (labels are single capital letters)
LabelRank(l) == CHOOSE i \in 1..26 : Upper[i] = l

RECURSIVE SortLabels(_)
SortLabels(S) ==
    IF S = {} THEN <<>>
    ELSE LET m == CHOOSE x \in S : \A y \in S : LabelRank(x) <= LabelRank(y)
         IN  <<m>> \o SortLabels(S \ {m})

\* a triangular enumeration that leaves the diagonal out
pairs_off_diagonal(jd) == { p \in all_labels(jd) \X all_labels(jd) : p[1] # p[2] }

\* pairs: all labels CROSS JOIN all labels
pairs(jd) == all_labels(jd) \X all_labels(jd)

\* the joined pairs with each unordered pair kept once
counted_pairs_upper_triangle(jd) ==
    { p \in pairs(jd) : /\ \E l \in all_labels(jd) : SqlEq(p[1], l)
                        /\ \E l \in all_labels(jd) : SqlEq(p[2], l)
                        /\ LabelRank(p[1]) <= LabelRank(p[2]) }

\* pairs p JOIN counts c1 ON p.A = c1.label JOIN counts c2 ON p.B = c2.label:
\* the inner joins keep a pair only when both labels equal a counted label
counted_pairs(jd) ==
    { p \in pairs(jd) : /\ \E l \in all_labels(jd) : SqlEq(p[1], l)
                        /\ \E l \in all_labels(jd) : SqlEq(p[2], l) }

PairBefore(p, q) ==
    \/ LabelRank(p[1]) < LabelRank(q[1])
    \/ p[1] = q[1] /\ LabelRank(p[2]) <= LabelRank(q[2])

\* ORDER BY A, B
RECURSIVE OrderPairs(_)
OrderPairs(S) ==
    IF S = {} THEN <<>>
    ELSE LET m == CHOOSE x \in S : \A y \in S : PairBefore(x, y)
         IN  <<m>> \o OrderPairs(S \ {m})

\* the whole query: one row per pair that survives the joins, ordered
jaccard_query(d, labelCol) ==
    LET jd      == joined_data(d, labelCol)
        ordered == OrderPairs(counted_pairs(jd))
    IN  [i \in 1..Len(ordered) |-> jaccard_row(jd, ordered[i][1], ordered[i][2])]

(***************************************************************************)
(* Responses and the engine                                                *)
(***************************************************************************)
StatusOK                  == 200
StatusBadRequest          == 400
StatusInternalServerError == 500

NoRequest  == [endpoint |-> None]
NoResponse == [status |-> 0, body |-> <<>>]

Response(status, body) == [status |-> status, body |-> body]

\* The handlers keep nothing between requests and the database is only
\* read: a behaviour follows one request from the idle server.
Idle == req = NoRequest

\* c.JSON(http.StatusBadRequest, gin.H{"error": ...})
BadRequest == Response(StatusBadRequest, <<>>)

\* c.JSON(http.StatusInternalServerError, gin.H{"error": ...})
ServerError == Response(StatusInternalServerError, <<>>)

(***************************************************************************)
(* The engine: what the database answers to the queries of the handlers.   *)
(* Numbers are kept in hundredths (AF 0.07 is 7, gc_content 100.0 is       *)
(* 10000), a literal is a fraction num / den.                              *)
(***************************************************************************)
\* the nullomers_created text of sequence id in the table of length K
SequenceText(id, K) == [i \in 1..K |-> IF i < id THEN "G" ELSE "A"]

HasJoin(from, tables) == \E i \in 1..Len(from.joins) : from.joins[i].table \in tables

MappingTables == {"donor_id_mapping", "exomes_donor_id_mapping"}
DonorTables   == {"donor_data", "exome_donor_data"}

\* the names an ON condition of join i may refer to
InScope(from, i, outer) ==
    (outer \cup {from.alias} \cup { from.joins[j].alias : j \in 1..i }) \ {""}

\* Catalog / Binder error of a FROM clause
FromFails(from, outer) ==
    \/ ~TableExists(from.table)
    \/ \E i \in 1..Len(from.joins) : ~(from.joins[i].refs \subseteq InScope(from, i, outer))

\* does the row of the first table survive join j
JoinKeeps(d, n, j) ==
    CASE j.table = "cancer_type_details" -> d.details[n.project].present
      [] j.table \in MappingTables -> j.kind = "LEFT JOIN" \/ d.mapping[n.donor] # <<>>
      [] j.table \in DonorTables ->
            j.kind = "LEFT JOIN"
            \/ (d.mapping[n.donor] # <<>> /\ d.donors[d.mapping[n.donor][1]].present)

\* Cancer_Type and Organ come from cancer_type_details in the genome
\* queries and from exome_donor_data in the exome queries
LabelSource(d, n, from) ==
    IF HasJoin(from, {"cancer_type_details"}) THEN d.details[n.project]
    ELSE IF HasJoin(from, {"exome_donor_data"}) /\ d.mapping[n.donor] # <<>>
         THEN d.donors[d.mapping[n.donor][1]]
    ELSE Absent

JoinedRow(d, n, from) ==
    [seq         |-> n.seq,
     donor       |-> n.donor,
     af          |-> n.af,
     actual      |-> IF HasJoin(from, MappingTables) THEN d.mapping[n.donor] ELSE <<>>,
     Cancer_Type |-> LabelSource(d, n, from).Cancer_Type,
     Organ       |-> LabelSource(d, n, from).Organ,
     gc_content  |-> gc_content(SequenceText(n.seq, Atoi(from.table.suffix).val))]

JoinRows(d, from) ==
    { JoinedRow(d, n, from) :
        n \in { m \in d.neomers : \A i \in 1..Len(from.joins) : JoinKeeps(d, m, from.joins[i]) } }

\* the tables of a FROM clause that carry a column named Donor_ID
\* (identifiers are matched without regard to case)
DonorIdOwners(from) ==
    {0} \cup { i \in 1..Len(from.joins) : from.joins[i].table \in MappingTables }

SubqueryFails(sub) == FromFails(sub.from, {"base"}) \/ Cardinality(DonorIdOwners(sub.from)) > 1

\* GROUP BY nullomers_created HAVING COUNT(DISTINCT Donor_ID) >= n
SubqueryResult(d, sub) ==
    LET rows == JoinRows(d, sub.from)
    IN  { s \in { r.seq : r \in rows } :
            Cardinality({ r.donor : r \in { x \in rows : x.seq = s } }) >= sub.n }

RECURSIVE Pow10(_)
Pow10(n) == IF n = 0 THEN 1 ELSE 10 * Pow10(n - 1)

\* a numeric literal: [+-] digits [ . digits ]
ParseNumber(text) ==
    LET t      == TrimSpace(text)
        signed == t # <<>> /\ Head(t) \in {"+", "-"}
        body   == IF signed THEN Tail(t) ELSE t
        dot    == Index(body, <<".">>)
        whole  == IF dot = 0 THEN body ELSE SubSeq(body, 1, dot - 1)
        frac   == IF dot = 0 THEN <<>> ELSE SubSeq(body, dot + 1, Len(body))
        ok     == /\ whole # <<>> /\ AllDigits(whole)
                  /\ (dot = 0 \/ (frac # <<>> /\ AllDigits(frac)))
        mag    == IF ok THEN DigitsValue(whole \o frac, 0) ELSE 0
    IN  [ok  |-> ok,
         num |-> IF signed /\ Head(t) = "-" THEN 0 - mag ELSE mag,
         den |-> IF ok THEN Pow10(Len(frac)) ELSE 1]

knownOps == { <<">", "=">>, <<"<", "=">>, <<">">>, <<"<">>, <<"=">>, <<"!", "=">>, <<"<", ">">> }

\* hundredths v  op  num / den
Compare(v, op, lit) ==
    LET l == v * lit.den
        r == 100 * lit.num
    IN  CASE op = <<">", "=">> -> l >= r
          [] op = <<"<", "=">> -> l <= r
          [] op = <<">">>  -> l > r
          [] op = <<"<">>  -> l < r
          [] op = <<"=">>  -> l = r
          [] OTHER       -> l # r

\* columns whose values the model carries, and columns it leaves NULL
valueColumns == { ToLower(Col_AF), ToLower(Col_gc_content) }
nullColumns ==
    { ToLower(c) : c \in { Col_AF_eas, Col_AF_afr, Col_AF_fin, Col_AF_ami, Col_AF_amr,
                           Col_AF_nfe, Col_AF_sas, Col_AF_asj, Col_donor_age_at_diagnosis } }

\* columns of text, whose CAST to a number may or may not convert
textColumns ==
    { ToLower(c) : c \in { Col_nullomers_created, Col_donor_id, <<"C", "a", "n", "c", "e", "r", "_", "T", "y", "p", "e">>, <<"O", "r", "g", "a", "n">> } }

\* <<>> for NULL, else <<hundredths>>
ColumnValue(r, col) ==
    IF ToLower(col) = ToLower(Col_AF) THEN r.af
    ELSE IF ToLower(col) = ToLower(Col_gc_content) THEN <<r.gc_content>>
    ELSE <<>>

\* "value": the engine evaluates it; "error": Binder error (no such
\* column); "open": text whose meaning the handler does not fix
AtomStatus(a) ==
    IF \/ \E i \in 1..Len(a.col) : a.col[i] = "\""
       \/ a.op \notin knownOps
       \/ ~ParseNumber(a.val).ok
       \/ ToLower(a.col) \in textColumns
    THEN "open"
    ELSE IF ToLower(a.col) \in valueColumns \cup nullColumns THEN "value"
    ELSE "error"

AtomHolds(r, a) ==
    /\ ColumnValue(r, a.col) # <<>>
    /\ Compare(ColumnValue(r, a.col)[1], a.op, ParseNumber(a.val))

\* a raw condition of the form CAST(col AS DOUBLE) op literal, as the exome
\* rewrite produces it, read back as one comparison
castComparison(text) ==
    LET open  == <<"C", "A", "S", "T", "(">>
        close == <<" ", "A", "S", " ", "D", "O", "U", "B", "L", "E", ")", " ">>
        at    == Index(text, close)
        rest  == IF at = 0 THEN <<>> ELSE Fields(SubSeq(text, at + Len(close), Len(text)))
    IN  IF HasPrefixAt(text, 1, open) /\ at > Len(open) /\ Len(rest) = 2
        THEN <<Cmp(SubSeq(text, Len(open) + 1, at - 1), rest[1], rest[2])>>
        ELSE <<>>

\* the comparisons of a clause the engine evaluates atom by atom
AtomsOf(cl) ==
    IF cl.kind = "cmp" THEN cl.atoms
    ELSE IF cl.kind = "raw" THEN castComparison(cl.text)
    ELSE <<>>

ClauseStatus(cl) ==
    IF cl.kind = "in" THEN (IF SubqueryFails(cl.sub) THEN "error" ELSE "value")
    ELSE LET atoms == AtomsOf(cl)
             st    == { AtomStatus(atoms[i]) : i \in 1..Len(atoms) }
         IN  IF atoms = <<>> \/ "open" \in st THEN "open"
             ELSE IF "error" \in st THEN "error"
             ELSE "value"

ClauseHolds(d, r, cl) ==
    IF cl.kind = "in" THEN r.seq \in SubqueryResult(d, cl.sub)
    ELSE \A i \in 1..Len(AtomsOf(cl)) : AtomHolds(r, AtomsOf(cl)[i])

WhereStatus(where) ==
    LET st == { ClauseStatus(where[i]) : i \in 1..Len(where) }
    IN  IF "open" \in st THEN "open" ELSE IF "error" \in st THEN "error" ELSE "value"

Failed == [ok |-> FALSE, rows |-> {}]
Answered(rows) == [ok |-> TRUE, rows |-> rows]

\* the rows of WITH base AS (... FROM from) SELECT ... FROM base WHERE where.
\* Open text either fails or selects some rows of base, the same ones in
\* every query of one request.
WhereOutcomes(d, from, where) ==
    IF FromFails(from, {}) THEN {Failed}
    ELSE LET base == JoinRows(d, from)
         IN  CASE WhereStatus(where) = "error" -> {Failed}
               [] WhereStatus(where) = "open" ->
                      {Failed} \cup { Answered(S) : S \in SUBSET base }
               [] OTHER ->
                      { Answered({ r \in base :
                                     \A i \in 1..Len(where) : ClauseHolds(d, r, where[i]) }) }

\* the orders in which the engine may deliver a set of rows: the queries
\* have no ORDER BY and main sets preserve_insertion_order = false
Orderings(S) ==
    { o \in [1..Cardinality(S) -> S] : \A i, j \in 1..Cardinality(S) : o[i] = o[j] => i = j }

Min(a, b) == IF a <= b THEN a ELSE b

\* LIMIT limit OFFSET offset over one delivery order
Slice(o, limit, offset) ==
    IF offset >= Len(o) THEN <<>>
    ELSE SubSeq(o, offset + 1, Min(Len(o), offset + limit))

\* a negative OFFSET is either rejected or read as no offset
PageOutcomes(rows, limit, offset) ==
    IF offset < 0
    THEN {Failed} \cup { [ok |-> TRUE, rows |-> Slice(o, limit, 0)] : o \in Orderings(rows) }
    ELSE { [ok |-> TRUE, rows |-> Slice(o, limit, offset)] : o \in Orderings(rows) }

(***************************************************************************)
(* LIKE, ORDER BY on text, ORDER BY count DESC                             *)
(***************************************************************************)
\* text LIKE pattern: % is any run of characters, _ any one character
RECURSIVE LikeMatch(_, _)
LikeMatch(text, pattern) ==
    IF pattern = <<>> THEN text = <<>>
    ELSE IF Head(pattern) = "%"
         THEN LikeMatch(text, Tail(pattern))
              \/ (text # <<>> /\ LikeMatch(Tail(text), pattern))
    ELSE /\ text # <<>>
         /\ (Head(pattern) = "_" \/ Head(pattern) = Head(text))
         /\ LikeMatch(Tail(text), Tail(pattern))

\* the byte order of the characters texts are made of
Collation == Digits \o Upper \o <<"_">> \o Lower

CharRank(ch) ==
    IF \E i \in 1..Len(Collation) : Collation[i] = ch
    THEN CHOOSE i \in 1..Len(Collation) : Collation[i] = ch
    ELSE 0

RECURSIVE TextLE(_, _)
TextLE(s, t) ==
    IF s = <<>> THEN TRUE
    ELSE IF t = <<>> THEN FALSE
    ELSE IF Head(s) = Head(t) THEN TextLE(Tail(s), Tail(t))
    ELSE CharRank(Head(s)) < CharRank(Head(t))

\* the deliveries of S that respect ORDER BY cnt DESC, cnt the name of a column
DescOrderings(S, cnt) ==
    { p \in Orderings(S) : \A i \in 1..Len(p) : \A j \in i..Len(p) : p[i][cnt] >= p[j][cnt] }

\* the deliveries of a set of texts that respect ORDER BY LOWER(text) ASC
AscOrderings(S) ==
    { p \in Orderings(S) : \A i \in 1..Len(p) : \A j \in i..Len(p) :
                              TextLE(ToLower(p[i]), ToLower(p[j])) }

\* the text of a label, and of an Actual_Donor_ID
LabelText(l) == <<l>>
DonorName(a) == <<"D", "O">> \o Itoa(a)


(***************************************************************************)
(* Grouped counts of the stats endpoints                                   *)
(*   SELECT nullomers_created [, col ...], COUNT(all) AS total_count       *)
(*   FROM base GROUP BY ... ORDER BY total_count DESC LIMIT topN           *)
(***************************************************************************)
\* the groupBy columns as the client wrote them, blanks included
groupByCols_untrimmed(groupByStr) ==
    IF groupByStr = <<>> THEN <<>>
    ELSE SelectSeq(Split(groupByStr, <<",">>), LAMBDA col : col # <<>>)

\* the columns a client named in groupBy
groupByCols(groupByStr) ==
    IF groupByStr = <<>> THEN <<>>
    ELSE LET cols == Split(groupByStr, <<",">>)
         IN  SelectSeq([i \in 1..Len(cols) |-> TrimSpace(cols[i])], LAMBDA col : col # <<>>)

\* the columns of base the model can group by
groupColumns(from) ==
    {ToLower(Col_AF)} \cup
    (IF HasJoin(from, {"cancer_type_details", "exome_donor_data"})
     THEN {ToLower(<<"C", "a", "n", "c", "e", "r", "_", "T", "y", "p", "e">>), ToLower(<<"O", "r", "g", "a", "n">>)} ELSE {})

GroupValue(r, col) ==
    IF ToLower(col) = ToLower(Col_AF) THEN r.af
    ELSE IF ToLower(col) = ToLower(<<"O", "r", "g", "a", "n">>) THEN r.Organ
    ELSE r.Cancer_Type

GroupStatus(cols, from) ==
    IF \E i \in 1..Len(cols) : \E k \in 1..Len(cols[i]) : ~IsIdentChar(cols[i][k]) THEN "open"
    ELSE IF \E i \in 1..Len(cols) : ToLower(cols[i]) \notin groupColumns(from) THEN "error"
    ELSE "value"

GroupKey(r, cols) == <<r.seq>> \o [i \in 1..Len(cols) |-> GroupValue(r, cols[i])]

Groups(rows, cols) ==
    { [key |-> k, total_count |-> Cardinality({ r \in rows : GroupKey(r, cols) = k })] :
        k \in { GroupKey(r, cols) : r \in rows } }

\* ORDER BY total_count DESC leaves the order of equal counts to the engine
StatsOutcomes(rows, cols, from, topN) ==
    LET grouped(c) ==
            { [ok |-> TRUE, rows |-> Slice(o, topN, 0)] :
                o \in DescOrderings(Groups(rows, c), "total_count") }
    IN  CASE GroupStatus(cols, from) = "error" -> {Failed}
          [] GroupStatus(cols, from) = "open"  -> {Failed} \cup grouped(<<>>)
          [] OTHER -> grouped(cols)

(***************************************************************************)
(* getNullomersHandler, getNullomersStatsHandler,                          *)
(* getExomeNullomersHandler, getExomeNullomersStatsHandler                 *)
(***************************************************************************)
Query(kind, from, where, limit, offset) ==
    [kind |-> kind, table |-> from.table, from |-> from, where |-> where,
     finalWhere |-> finalWhere(where), limit |-> limit, offset |-> offset]

Answer(response, issued) == [resp |-> response, queries |-> issued]

defaultLimit == 10000
defaultTopN  == 10

\* if p, err := strconv.Atoi(pageStr); err == nil && p >= 0 { page = p }
genomePage(pageStr) ==
    IF Atoi(pageStr).ok /\ Atoi(pageStr).val >= 0 THEN Atoi(pageStr).val ELSE 0

\* if l, err := strconv.Atoi(limitStr); err == nil && l > 0 && l <= 10000 { limit = l }
genomeLimit(limitStr) ==
    IF Atoi(limitStr).ok /\ Atoi(limitStr).val > 0 /\ Atoi(limitStr).val <= defaultLimit
    THEN Atoi(limitStr).val ELSE defaultLimit

\* page, _ := strconv.Atoi(c.DefaultQuery("page", "0"))
exomePage(pageStr) == Atoi(pageStr).val

\* the exome limit without the clamp of lines 937-939
exomeLimit_unclamped(limitStr) ==
    IF limitStr = <<>> THEN defaultLimit ELSE Atoi(limitStr).val

\* limit, _ := strconv.Atoi(c.DefaultQuery("limit", "10000")), then the clamp
exomeLimit(limitStr) ==
    LET limit == IF limitStr = <<>> THEN defaultLimit ELSE Atoi(limitStr).val
    IN  IF limit < 1 \/ limit > defaultLimit THEN defaultLimit ELSE limit

\* if n, err := strconv.Atoi(topNStr); err == nil && n > 0 { topN = n }
topNOf(topNStr) ==
    IF Atoi(topNStr).ok /\ Atoi(topNStr).val > 0 THEN Atoi(topNStr).val ELSE defaultTopN

Col_Tumor_Sample_Barcode        == <<"T", "u", "m", "o", "r", "_", "S", "a", "m", "p", "l", "e", "_", "B", "a", "r", "c", "o", "d", "e">>
Col_Matched_Norm_Sample_Barcode == <<"M", "a", "t", "c", "h", "e", "d", "_", "N", "o", "r", "m", "_", "S", "a", "m", "p", "l", "e", "_", "B", "a", "r", "c", "o", "d", "e">>

\* the columns of the joined tables that the SELECT list of a base CTE does
\* not carry (identifiers ignore case): the base of the genome COUNT selects
\* n.*, c.*, d.* without the two barcodes of di, every other base selects
\* n.* EXCLUDE (Donor_ID)
hiddenColumns(kind, from) ==
    IF kind = "count" /\ from.table.prefix = "neomers_"
    THEN {ToLower(Col_Tumor_Sample_Barcode), ToLower(Col_Matched_Norm_Sample_Barcode)}
    ELSE {ToLower(Col_donor_id)}

\* does the WHERE text name one of the columns
Mentions(where, cols) ==
    \E i \in 1..Len(where) :
        \/ /\ where[i].kind = "cmp"
           /\ \E a \in 1..Len(where[i].atoms) : ToLower(where[i].atoms[a].col) \in cols
        \/ /\ where[i].kind = "raw"
           /\ \E c \in cols : Index(ToLower(where[i].text), c) # 0

\* Binder error: the WHERE of the query names a column its base lacks
Unbound(kind, from, where) == Mentions(where, hiddenColumns(kind, from))

\* a COUNT that leaves the WHERE out
FilteredAnswers_unfiltered_count(from, where, limit, offset) ==
    LET countQuery == Query("count", from, <<>>, 0, 0)
        pageQuery  == Query("page", from, where, limit, offset)
    IN  UNION { IF ~out.ok THEN {Answer(ServerError, <<countQuery>>)}
                ELSE { IF ~pg.ok THEN Answer(ServerError, <<countQuery, pageQuery>>)
                       ELSE Answer(Response(StatusOK,
                                            [data |-> pg.rows,
                                             totalCount |-> Cardinality(JoinRows(db, from))]),
                                   <<countQuery, pageQuery>>) :
                       pg \in PageOutcomes(out.rows, limit, offset) } :
                out \in WhereOutcomes(db, from, where) }

\* 2) COUNT, then 3) the data page
FilteredAnswers(from, where, limit, offset) ==
    LET countQuery == Query("count", from, where, 0, 0)
        pageQuery  == Query("page", from, where, limit, offset)
    IN  IF Unbound("count", from, where) THEN {Answer(ServerError, <<countQuery>>)}
        ELSE
        UNION { IF ~out.ok THEN {Answer(ServerError, <<countQuery>>)}
                ELSE IF Unbound("page", from, where)
                THEN {Answer(ServerError, <<countQuery, pageQuery>>)}
                ELSE { IF ~pg.ok THEN Answer(ServerError, <<countQuery, pageQuery>>)
                       ELSE Answer(Response(StatusOK,
                                            [data |-> pg.rows,
                                             totalCount |-> Cardinality(out.rows)]),
                                   <<countQuery, pageQuery>>) :
                       pg \in PageOutcomes(out.rows, limit, offset) } :
                out \in WhereOutcomes(db, from, where) }

\* selectCols and groupByCols both start with nullomers_created
selectClause(cols) ==
    Join(<<Col_nullomers_created>> \o cols, <<",", " ">>) \o <<",", " ", "C", "O", "U", "N", "T", "(">> \o <<"*">> \o <<")", " ", "A", "S", " ", "t", "o", "t", "a", "l", "_", "c", "o", "u", "n", "t">>

groupByClause(cols) == Join(<<Col_nullomers_created>> \o cols, <<",", " ">>)

\* SELECT selectClause FROM base finalWhere GROUP BY groupByClause
\* ORDER BY total_count DESC LIMIT topN
StatsQuery(from, where, cols, topN) ==
    [kind |-> "stats", table |-> from.table, from |-> from, where |-> where,
     finalWhere |-> finalWhere(where), selectClause |-> selectClause(cols),
     groupByClause |-> groupByClause(cols), orderBy |-> <<"t", "o", "t", "a", "l", "_", "c", "o", "u", "n", "t", " ", "D", "E", "S", "C">>,
     limit |-> topN, offset |-> 0]

\* the one grouped query of the stats handlers
StatsAnswers(from, where, cols, topN) ==
    LET query == StatsQuery(from, where, cols, topN)
    IN  IF Unbound("stats", from, where) THEN {Answer(ServerError, <<query>>)}
        ELSE
        UNION { IF ~out.ok THEN {Answer(ServerError, <<query>>)}
                ELSE { IF ~st.ok THEN Answer(ServerError, <<query>>)
                       ELSE Answer(Response(StatusOK, [data |-> st.rows]), <<query>>) :
                       st \in StatsOutcomes(out.rows, cols, from, topN) } :
                out \in WhereOutcomes(db, from, where) }

Rejected == {Answer(BadRequest, <<>>)}

getNullomersHandler(length, pageStr, limitStr, filters, specialFilters, column, filterType, filterValue) ==
    /\ req' = [endpoint |-> "get_nullomers", length |-> length, page |-> pageStr,
               limit |-> limitStr, filters |-> filters, specialFilters |-> specialFilters,
               column |-> column, filterType |-> filterType, value |-> filterValue]
    /\ \E a \in (IF length = <<>> THEN Rejected
                 ELSE FilteredAnswers(
                        GenomeBaseFrom(length),
                        genomeWhereClauses(length, filters, specialFilters,
                                           column, filterType, filterValue),
                        genomeLimit(limitStr),
                        genomePage(pageStr) * genomeLimit(limitStr))) :
          resp' = a.resp /\ queries' = a.queries
    /\ UNCHANGED <<db, sequence, gc>>

getNullomersStatsHandler(length, filters, specialFilters, groupByStr, topNStr, column, filterType, filterValue) ==
    /\ req' = [endpoint |-> "get_nullomers_stats", length |-> length,
               filters |-> filters, specialFilters |-> specialFilters,
               groupBy |-> groupByStr, topN |-> topNStr,
               column |-> column, filterType |-> filterType, value |-> filterValue]
    /\ \E a \in (IF length = <<>> THEN Rejected
                 ELSE StatsAnswers(
                        GenomeBaseFrom(length),
                        genomeWhereClauses(length, filters, specialFilters,
                                           column, filterType, filterValue),
                        groupByCols(groupByStr), topNOf(topNStr))) :
          resp' = a.resp /\ queries' = a.queries
    /\ UNCHANGED <<db, sequence, gc>>

\* column, filterType and value are not read by the exome handlers
getExomeNullomersHandler(length, pageStr, limitStr, filters, specialFilters, column, filterType, filterValue) ==
    /\ req' = [endpoint |-> "get_exome_nullomers", length |-> length, page |-> pageStr,
               limit |-> limitStr, filters |-> filters, specialFilters |-> specialFilters,
               column |-> column, filterType |-> filterType, value |-> filterValue]
    /\ \E a \in (IF length = <<>> THEN Rejected
                 ELSE FilteredAnswers(
                        ExomeBaseFrom(length),
                        exomeWhereParts(length, filters, specialFilters),
                        exomeLimit(limitStr),
                        exomePage(pageStr) * exomeLimit(limitStr))) :
          resp' = a.resp /\ queries' = a.queries
    /\ UNCHANGED <<db, sequence, gc>>

getExomeNullomersStatsHandler(length, filters, specialFilters, groupByStr, topNStr, column, filterType, filterValue) ==
    /\ req' = [endpoint |-> "get_exome_nullomers_stats", length |-> length,
               filters |-> filters, specialFilters |-> specialFilters,
               groupBy |-> groupByStr, topN |-> topNStr,
               column |-> column, filterType |-> filterType, value |-> filterValue]
    /\ \E a \in (IF length = <<>> THEN Rejected
                 ELSE StatsAnswers(
                        ExomeBaseFrom(length),
                        exomeWhereParts(length, filters, specialFilters),
                        groupByCols(groupByStr), topNOf(topNStr))) :
          resp' = a.resp /\ queries' = a.queries
    /\ UNCHANGED <<db, sequence, gc>>

(***************************************************************************)
(* getSuggestionsHandler, getExomeSuggestionsHandler                       *)
(***************************************************************************)
suggestionLimit == 10

\* FROM exome_neomers_%s n JOIN exomes_donor_id_mapping di ON ...
\* JOIN exome_donor_data d ON ...
ExomeSuggestionsFrom(length) ==
    FromOf(Table("exome_neomers_", length), "n",
           << JoinOf("exomes_donor_id_mapping", "di", "JOIN", {"n", "di"}),
              JoinOf("exome_donor_data", "d", "JOIN", {"di", "d"}) >>)

\* the response when the list depends on text the model does not interpret
OpenSuggestions == [open |-> TRUE]

\* the texts of the model are not empty: the empty one stands for NULL
NoText == <<>>

\* NoText, or the text of the column in row r
SuggestValue(r, column, from) ==
    IF ToLower(column) = ToLower(Col_nullomers_created)
    THEN SequenceText(r.seq, Atoi(from.table.suffix).val)
    ELSE LET l == IF ToLower(column) = ToLower(<<"O", "r", "g", "a", "n">>) THEN r.Organ ELSE r.Cancer_Type
         IN  IF l = NULL THEN NoText ELSE LabelText(l)

\* SELECT DISTINCT column ... [WHERE LOWER(column) LIKE '%input%'] LIMIT 10,
\* then the non-NULL values ORDER BY LOWER(column) ASC
SuggestionLists(d, from, column, lowerInput) ==
    LET vals    == { SuggestValue(r, column, from) : r \in JoinRows(d, from) }
        matched == IF lowerInput = <<>> THEN vals
                   ELSE { v \in vals \ {NoText} :
                            LikeMatch(ToLower(v), <<"%">> \o lowerInput \o <<"%">>) }
        kept    == { S \in SUBSET matched :
                       Cardinality(S) = Min(suggestionLimit, Cardinality(matched)) }
    IN  UNION { AscOrderings(S \ {NoText}) : S \in kept }

SuggestionBodies(from, column, input) ==
    LET lowerInput == ToLower(input)
        text       == groupColumns(from) \cup {ToLower(Col_nullomers_created)}
    IN  IF FromFails(from, {}) THEN {<<>>}
        ELSE IF \/ \E i \in 1..Len(column) : ~IsIdentChar(column[i])
                \/ \E i \in 1..Len(input) : ~IsIdentChar(input[i]) /\ input[i] # "%"
                \/ ToLower(column) \in (valueColumns \cup nullColumns)
        THEN {OpenSuggestions, <<>>}
        ELSE IF ToLower(column) \notin text THEN {<<>>}
        ELSE SuggestionLists(db, from, column, lowerInput)

SuggestionAnswers(from, column, input) ==
    { Answer(Response(StatusOK, [suggestions |-> b]),
             <<[kind |-> "suggestions", table |-> from.table, from |-> from,
                column |-> column, input |-> ToLower(input)]>>) :
        b \in SuggestionBodies(from, column, input) }

NoSuggestions == {Answer(Response(StatusOK, [suggestions |-> <<>>]), <<>>)}

getSuggestionsHandler(column, input, length) ==
    /\ req' = [endpoint |-> "get_suggestions", column |-> column, input |-> input,
               length |-> length]
    /\ \E a \in (IF length = <<>> \/ column = <<>> THEN Rejected
                 ELSE IF column = Col_gc_content THEN NoSuggestions
                 ELSE SuggestionAnswers(GenomeBaseFrom(length), column, input)) :
          resp' = a.resp /\ queries' = a.queries
    /\ UNCHANGED <<db, sequence, gc>>

getExomeSuggestionsHandler(column, input, length) ==
    /\ req' = [endpoint |-> "get_exome_suggestions", column |-> column, input |-> input,
               length |-> length]
    /\ \E a \in (IF length = <<>> THEN Rejected
                 ELSE IF column = Col_gc_content THEN NoSuggestions
                 ELSE SuggestionAnswers(ExomeSuggestionsFrom(length), column, input)) :
          resp' = a.resp /\ queries' = a.queries
    /\ UNCHANGED <<db, sequence, gc>>

(***************************************************************************)
(* getPatientNeomersHandler, getExomePatientNeomersHandler                 *)
(***************************************************************************)
\* FROM neomers_%d n JOIN cancer_type_details c USING (Project_Code)
\* JOIN donor_id_mapping di ON ... JOIN donor_data d ON ...
PatientNeomersFrom(length) ==
    FromOf(Table("neomers_", Itoa(length)), "n",
           << JoinOf("cancer_type_details", "c", "JOIN", {}),
              JoinOf("donor_id_mapping", "di", "JOIN", {"n", "di"}),
              JoinOf("donor_data", "d", "JOIN", {"di", "d"}) >>)

\* FROM exome_neomers_%d n JOIN exomes_donor_id_mapping m ON n.Donor_ID = m.Donor_ID
ExomePatientNeomersFrom(length) ==
    FromOf(Table("exome_neomers_", Itoa(length)), "n",
           << JoinOf("exomes_donor_id_mapping", "m", "JOIN", {"n", "m"}) >>)

\* the rows of a join whose nullomers_created is the text
RowsOfText(rows, from, text) ==
    { r \in rows : SequenceText(r.seq, Atoi(from.table.suffix).val) = text }

\* SELECT nullomers_created AS neomer, COUNT(all) AS count ...
\* WHERE Actual_Donor_ID = ? [AND nullomers_created LIKE ?]
\* GROUP BY neomer ORDER BY count DESC LIMIT ?
PatientNeomerLists(d, from, donorID, prefix, topN) ==
    LET K      == Atoi(from.table.suffix).val
        rows   == { r \in JoinRows(d, from) :
                      /\ r.actual # <<>>
                      /\ DonorName(r.actual[1]) = donorID
                      /\ (prefix = <<>>
                          \/ LikeMatch(SequenceText(r.seq, K), prefix \o <<"%">>)) }
        groups == { [neomer |-> SequenceText(s, K),
                     count  |-> Cardinality({ r \in rows : r.seq = s })] :
                      s \in { r.seq : r \in rows } }
    IN  { Slice(o, topN, 0) : o \in DescOrderings(groups, "count") }

PatientNeomersAnswers(from, donorID, prefix, topN) ==
    LET query == [kind |-> "patient_neomers", table |-> from.table, from |-> from,
                  donor_id |-> donorID, prefix |-> prefix, limit |-> topN]
    IN  IF FromFails(from, {}) THEN {Answer(ServerError, <<query>>)}
        ELSE { Answer(Response(StatusOK, [neomers |-> l]), <<query>>) :
                 l \in PatientNeomerLists(db, from, donorID, prefix, topN) }

\* length, err := strconv.Atoi(lengthStr); err != nil || length < 11 || length > 20
validLength(lengthStr) ==
    Atoi(lengthStr).ok /\ Atoi(lengthStr).val >= MinLength /\ Atoi(lengthStr).val <= MaxLength

getPatientNeomersHandler(donorID, lengthStr, topNStr, prefix) ==
    /\ req' = [endpoint |-> "patient_neomers", donor_id |-> donorID, length |-> lengthStr,
               top_n |-> topNStr, prefix |-> prefix]
    /\ \E a \in (IF donorID = <<>> \/ lengthStr = <<>> \/ ~validLength(lengthStr)
                 THEN Rejected
                 ELSE PatientNeomersAnswers(PatientNeomersFrom(Atoi(lengthStr).val),
                                            donorID, prefix, topNOf(topNStr))) :
          resp' = a.resp /\ queries' = a.queries
    /\ UNCHANGED <<db, sequence, gc>>

getExomePatientNeomersHandler(donorID, lengthStr, topNStr, prefix) ==
    /\ req' = [endpoint |-> "exome_patient_neomers", donor_id |-> donorID,
               length |-> lengthStr, top_n |-> topNStr, prefix |-> prefix]
    /\ \E a \in (IF donorID = <<>> \/ lengthStr = <<>> \/ ~validLength(lengthStr)
                 THEN Rejected
                 ELSE PatientNeomersAnswers(ExomePatientNeomersFrom(Atoi(lengthStr).val),
                                            donorID, prefix, topNOf(topNStr))) :
          resp' = a.resp /\ queries' = a.queries
    /\ UNCHANGED <<db, sequence, gc>>

(***************************************************************************)
(* analyzeNeomerHandler                                                    *)
(***************************************************************************)
\* FROM neomers_%d n JOIN cancer_type_details c USING (Project_Code)
\* JOIN donor_id_mapping di ON ...
AnalyzeFrom(K) ==
    FromOf(Table("neomers_", Itoa(K)), "n",
           << JoinOf("cancer_type_details", "c", "JOIN", {}),
              JoinOf("donor_id_mapping", "di", "JOIN", {"n", "di"}) >>)

\* FROM neomers_%d n JOIN donor_id_mapping di ON ...
AnalyzeDonorsFrom(K) ==
    FromOf(Table("neomers_", Itoa(K)), "n",
           << JoinOf("donor_id_mapping", "di", "JOIN", {"n", "di"}) >>)

AnalyzeQuery(kind, from, neomer) ==
    [kind |-> kind, table |-> from.table, from |-> from, neomer |-> neomer]

\* the cancerBreakdown lists the loop over the breakdown rows and the range
\* over cancerMap can build: organs in the order the rows arrive, cancer
\* types in the order of the map iteration
CancerBreakdowns(rows) ==
    LET cts == { r.Cancer_Type : r \in rows }
        organCounts(ct) ==
            { [organ |-> o,
               count |-> Cardinality({ r \in rows : r.Cancer_Type = ct /\ r.Organ = o })] :
                o \in { r.Organ : r \in { x \in rows : x.Cancer_Type = ct } } }
        entries(ct) ==
            { [cancerType |-> ct,
               count      |-> Cardinality({ r \in rows : r.Cancer_Type = ct }),
               organs     |-> o] : o \in Orderings(organCounts(ct)) }
        choices == { f \in [cts -> UNION { entries(ct) : ct \in cts }] :
                       \A ct \in cts : f[ct] \in entries(ct) }
    IN  UNION { Orderings({ f[ct] : ct \in cts }) : f \in choices }

\* the distinctDonorIDs lists: SELECT DISTINCT Actual_Donor_ID, in any order
DonorIDLists(rows) ==
    { [i \in 1..Len(o) |-> DonorName(o[i][1])] : o \in Orderings({ r.actual : r \in rows }) }

AnalyzeAnswers(neomer) ==
    LET K          == Len(neomer)
        rows       == RowsOfText(JoinRows(db, AnalyzeFrom(K)), AnalyzeFrom(K), neomer)
        donorRows  == RowsOfText(JoinRows(db, AnalyzeDonorsFrom(K)),
                                 AnalyzeDonorsFrom(K), neomer)
        totalQuery     == AnalyzeQuery("total", AnalyzeFrom(K), neomer)
        breakdownQuery == AnalyzeQuery("breakdown", AnalyzeFrom(K), neomer)
        donorsQuery    == AnalyzeQuery("distinct_donors", AnalyzeDonorsFrom(K), neomer)
    IN  IF FromFails(AnalyzeFrom(K), {}) THEN {Answer(ServerError, <<totalQuery>>)}
        \* rows.Scan(&ct, &organ, &cnt) of a NULL into a string
        ELSE IF \E r \in rows : r.Cancer_Type = NULL \/ r.Organ = NULL
        THEN {Answer(ServerError, <<totalQuery, breakdownQuery>>)}
        ELSE { Answer(Response(StatusOK,
                   [totalNeomers        |-> Cardinality(rows),
                    distinctDonors      |-> Cardinality({ r.actual : r \in rows }),
                    distinctCancerTypes |-> Cardinality({ r.Cancer_Type : r \in rows }),
                    distinctOrgans      |-> Cardinality({ r.Organ : r \in rows }),
                    cancerBreakdown     |-> b,
                    distinctDonorIDs    |-> l]),
                 <<totalQuery, breakdownQuery, donorsQuery>>) :
                 b \in CancerBreakdowns(rows), l \in DonorIDLists(donorRows) }

analyzeNeomerHandler(neomer) ==
    /\ req' = [endpoint |-> "analyze_neomer", neomer |-> neomer]
    /\ \E a \in (IF neomer = <<>> \/ Len(neomer) < MinLength \/ Len(neomer) > MaxLength
                 THEN Rejected
                 ELSE AnalyzeAnswers(neomer)) :
          resp' = a.resp /\ queries' = a.queries
    /\ UNCHANGED <<db, sequence, gc>>

(***************************************************************************)
(* getExomeAnalyzeNeomerHandler                                            *)
(***************************************************************************)
\* FROM exome_neomers_%d AS n JOIN exomes_donor_id_mapping AS di ON ...
\* JOIN exome_donor_data AS d ON ...
ExomeAnalyzeFrom(length) ==
    FromOf(Table("exome_neomers_", Itoa(length)), "n",
           << JoinOf("exomes_donor_id_mapping", "di", "JOIN", {"n", "di"}),
              JoinOf("exome_donor_data", "d", "JOIN", {"di", "d"}) >>)

\* FROM exome_neomers_%d AS n JOIN exomes_donor_id_mapping AS di ON ...
ExomeAnalyzeDonorsFrom(length) ==
    FromOf(Table("exome_neomers_", Itoa(length)), "n",
           << JoinOf("exomes_donor_id_mapping", "di", "JOIN", {"n", "di"}) >>)

\* SELECT label, COUNT(DISTINCT di.Actual_Donor_ID) AS count ...
\* GROUP BY label ORDER BY count DESC
LabelBreakdowns(rows, label) ==
    LET groups == { [label |-> l,
                     count |-> Cardinality({ r.actual : r \in { x \in rows : x[label] = l } })] :
                      l \in { r[label] : r \in rows } }
    IN  DescOrderings(groups, "count")

ExomeAnalyzeAnswers(neomer) ==
    LET length      == Len(neomer)
        from        == ExomeAnalyzeFrom(length)
        donorsFrom  == ExomeAnalyzeDonorsFrom(length)
        rows        == RowsOfText(JoinRows(db, from), from, neomer)
        donorRows   == RowsOfText(JoinRows(db, donorsFrom), donorsFrom, neomer)
        cancerQ     == AnalyzeQuery("cancer_breakdown", from, neomer)
        organQ      == AnalyzeQuery("organ_breakdown", from, neomer)
        donorsQ     == AnalyzeQuery("distinct_donors", donorsFrom, neomer)
    IN  IF FromFails(from, {}) THEN {Answer(ServerError, <<cancerQ>>)}
        \* cancerRows.Scan(&ct, &cnt) of a NULL into a string
        ELSE IF \E r \in rows : r.Cancer_Type = NULL
        THEN {Answer(ServerError, <<cancerQ>>)}
        ELSE IF \E r \in rows : r.Organ = NULL
        THEN {Answer(ServerError, <<cancerQ, organQ>>)}
        ELSE { Answer(Response(StatusOK,
                   [cancerBreakdown  |-> c,
                    organBreakdown   |-> o,
                    distinctDonorIDs |-> l]),
                 <<cancerQ, organQ, donorsQ>>) :
                 c \in LabelBreakdowns(rows, "Cancer_Type"),
                 o \in LabelBreakdowns(rows, "Organ"),
                 l \in DonorIDLists(donorRows) }

\* length := len([]rune(neomer)), not compared with 11 and 20
getExomeAnalyzeNeomerHandler(neomer) ==
    /\ req' = [endpoint |-> "exome_analyze_neomer", neomer |-> neomer]
    /\ \E a \in (IF neomer = <<>> THEN Rejected ELSE ExomeAnalyzeAnswers(neomer)) :
          resp' = a.resp /\ queries' = a.queries
    /\ UNCHANGED <<db, sequence, gc>>

(***************************************************************************)
(* getPatientDetailsHandler, getExomePatientDetailsHandler                 *)
(* Their queries name fixed tables; a query fails only when the engine     *)
(* fails to execute it (failing is the set of the queries that do).        *)
(***************************************************************************)
PatientDetailsQueries == { "mapping", "project", "patient", "columns" }

\* no query fails, or one of them does
FailingInputs == {{}} \cup { {q} : q \in PatientDetailsQueries }

PatientQuery(kind, table, failing) ==
    [kind |-> kind, table |-> table, failed |-> kind \in failing]

\* SELECT Donor_ID FROM donor_id_mapping WHERE Actual_Donor_ID = ?
MappedDonorIds(d, actualID) ==
    { i \in DOMAIN d.mapping :
        d.mapping[i] # <<>> /\ DonorName(d.mapping[i][1]) = actualID }

\* SELECT Project_Code FROM neomers_15 WHERE Donor_ID = ? LIMIT 1
ProjectCodesOf(d, internalID) ==
    { n.project : n \in { m \in d.neomers : m.donor = internalID } }

\* is there a row of donor_data / exome_donor_data for the id
DonorRows(d, actualID) ==
    { a \in DOMAIN d.donors : d.donors[a].present /\ DonorName(a) = actualID }

\* gin.H{"patient": nil}
NoPatient == Response(StatusOK, [patient |-> <<>>])

PatientDetailsAnswers(actualID, failing) ==
    LET mappingQ == PatientQuery("mapping", Table("donor_id_mapping", <<>>), failing)
        projectQ == PatientQuery("project", Table("neomers_", Itoa(15)), failing)
        patientQ == PatientQuery("patient", Table("donor_data", <<>>), failing)
        columnsQ == PatientQuery("columns", Table("donor_data", <<>>), failing)
        all      == <<mappingQ, projectQ, patientQ, columnsQ>>
        ids      == MappedDonorIds(db, actualID)
    IN  \* if err != nil { no mapping found -> no patient }
        IF mappingQ.failed \/ ids = {} THEN {Answer(NoPatient, <<mappingQ>>)}
        ELSE UNION {
               IF projectQ.failed \/ ProjectCodesOf(db, id) = {}
               THEN {Answer(NoPatient, <<mappingQ, projectQ>>)}
               ELSE { IF columnsQ.failed THEN Answer(ServerError, all)
                      \* row.Scan: the deferred error of QueryRow, or no row
                      ELSE IF \/ patientQ.failed
                              \/ DonorRows(db, actualID) = {}
                              \/ ~db.details[pc].present
                      THEN Answer(NoPatient, all)
                      ELSE Answer(Response(StatusOK,
                                    [patient |-> <<[icgc_donor_id |-> actualID,
                                                    Cancer_Type |-> db.details[pc].Cancer_Type,
                                                    Organ |-> db.details[pc].Organ]>>]),
                                  all) :
                      pc \in ProjectCodesOf(db, id) } :
               id \in ids }

getPatientDetailsHandler(actualID, failing) ==
    /\ req' = [endpoint |-> "patient_details", donor_id |-> actualID]
    /\ \E a \in (IF actualID = <<>> THEN Rejected
                 ELSE PatientDetailsAnswers(actualID, failing)) :
          resp' = a.resp /\ queries' = a.queries
    /\ UNCHANGED <<db, sequence, gc>>

ExomePatientDetailsAnswers(actualID, failing) ==
    LET columnsQ == PatientQuery("columns", Table("exome_donor_data", <<>>), failing)
        patientQ == PatientQuery("patient", Table("exome_donor_data", <<>>), failing)
        rows     == DonorRows(db, actualID)
    IN  IF columnsQ.failed THEN {Answer(ServerError, <<columnsQ>>)}
        \* if err := row.Scan(ptrs...); err != nil { no match }
        ELSE IF patientQ.failed \/ rows = {}
        THEN {Answer(NoPatient, <<columnsQ, patientQ>>)}
        ELSE { Answer(Response(StatusOK,
                        [patient |-> <<[bcr_patient_barcode |-> actualID,
                                        Cancer_Type |-> db.donors[a].Cancer_Type,
                                        Organ |-> db.donors[a].Organ]>>]),
                      <<columnsQ, patientQ>>) : a \in rows }

getExomePatientDetailsHandler(actualID, failing) ==
    /\ req' = [endpoint |-> "exome_patient_details", donor_id |-> actualID]
    /\ \E a \in (IF actualID = <<>> THEN Rejected
                 ELSE ExomePatientDetailsAnswers(actualID, failing)) :
          resp' = a.resp /\ queries' = a.queries
    /\ UNCHANGED <<db, sequence, gc>>


(***************************************************************************)
(* getJaccardIndexHandler, getJaccardIndexOrgansHandler                    *)
(***************************************************************************)
JaccardAnswer(K, labelCol) ==
    IF K = <<>> THEN [resp |-> BadRequest, queries |-> <<>>]
    ELSE IF ~Atoi(K).ok \/ K = <<"0">> THEN [resp |-> BadRequest, queries |-> <<>>]
    ELSE LET tableName == Table("neomers_", K)
             q == [kind |-> "jaccard", table |-> tableName, label |-> labelCol]
         IN  [resp    |-> IF TableExists(tableName)
                          THEN Response(StatusOK, jaccard_query(db, labelCol))
                          ELSE ServerError,
              queries |-> <<q>>]

getJaccardIndexHandler(K) ==
    /\ req' = [endpoint |-> "jaccard_index", K |-> K]
    /\ resp' = JaccardAnswer(K, "Cancer_Type").resp
    /\ queries' = JaccardAnswer(K, "Cancer_Type").queries
    /\ UNCHANGED <<db, sequence, gc>>

getJaccardIndexOrgansHandler(K) ==
    /\ req' = [endpoint |-> "jaccard_index_organs", K |-> K]
    /\ resp' = JaccardAnswer(K, "Organ").resp
    /\ queries' = JaccardAnswer(K, "Organ").queries
    /\ UNCHANGED <<db, sequence, gc>>

(***************************************************************************)
(* Specification of the similarity endpoints over bounded databases        *)
(***************************************************************************)
MaxSeqs   == 3    \* distinct nullomers_created values
MaxLabels == 2    \* distinct cancer types / organs

ProjectCodes == {1, 2}

DonorIds == {1, 2}

ActualIds == {1, 2}

NoMapping == [i \in DonorIds |-> <<>>]

NoDonors == [a \in ActualIds |-> Absent]

Labels == { Upper[i] : i \in 1..MaxLabels } \cup {NULL}

DetailChoices == {Absent} \cup { Detail(ct, organ) : ct \in Labels, organ \in Labels }

NeomerRow(seq, donor, project, af) ==
    [seq |-> seq, donor |-> donor, project |-> project, af |-> af]

JaccardDbs ==
    { [neomers |-> n, details |-> d, mapping |-> NoMapping, donors |-> NoDonors] :
        n \in SUBSET { NeomerRow(s, 1, p, <<>>) : s \in 1..MaxSeqs, p \in ProjectCodes },
        d \in [ProjectCodes -> DetailChoices] }

KInputs ==
    { <<>>, <<"0">>, <<"1", "1">>, <<"2", "0">>, <<"2", "5">>,
      <<"-", "3">>, <<"a", "b", "c">> }

EmptyDb ==
    [neomers |-> {}, details |-> [p \in ProjectCodes |-> Absent],
     mapping |-> NoMapping, donors |-> NoDonors]

InitJaccard ==
    /\ db \in JaccardDbs
    /\ req = NoRequest
    /\ resp = NoResponse
    /\ queries = <<>>
    /\ history = <<>>
    /\ sequence = <<>>
    /\ gc = 0

NextJaccard ==
    \/ Idle /\ \E K \in KInputs : getJaccardIndexHandler(K) /\ UNCHANGED history
    \/ Idle /\ \E K \in KInputs : getJaccardIndexOrgansHandler(K) /\ UNCHANGED history

SpecJaccard == InitJaccard /\ [][NextJaccard]_vars

(***************************************************************************)
(* Specification of the gc_content expression over bounded sequences       *)
(***************************************************************************)
InitGc ==
    /\ db = EmptyDb
    /\ req = NoRequest
    /\ resp = NoResponse
    /\ queries = <<>>
    /\ history = <<>>
    /\ sequence \in SequenceInputs
    /\ gc = 0

\* the base CTE evaluates the expression for a row whose nullomers_created
\* is the sequence
EvalGcContent ==
    /\ req = NoRequest
    /\ req' = [endpoint |-> "base"]
    /\ gc' = gc_content(sequence)
    /\ UNCHANGED <<db, resp, queries, history, sequence>>

NextGc == EvalGcContent

SpecGc == InitGc /\ [][NextGc]_vars

(***************************************************************************)
(* Specification of the per-length endpoints: one database, many requests  *)
(***************************************************************************)
\* two sequences; donor 1 is bridged to actual donor 1, donor 2 is not bridged
SampleDb ==
    [neomers |-> { NeomerRow(1, 1, 1, <<5>>), NeomerRow(1, 2, 1, <<60>>),
                   NeomerRow(2, 1, 2, <<>>) },
     details |-> [p \in ProjectCodes |-> IF p = 1 THEN Detail("A", "B") ELSE Detail("B", "B")],
     mapping |-> [i \in DonorIds |-> IF i = 1 THEN <<1>> ELSE <<>>],
     donors  |-> [a \in ActualIds |-> IF a = 1 THEN Detail("A", "A") ELSE Absent]]

LengthInputs == { <<>>, <<"1", "1">>, <<"2", "0">>, <<"2", "5">>, <<"a", "b", "c">> }

FiltersInputs ==
    { <<>>, <<"A", "F", " ", ">", " ", "0", ".", "1">>,
      <<"(", "g", "c", "_", "c", "o", "n", "t", "e", "n", "t", " ", ">", "=", " ", "(", "5", "0", ")", ")", " ", "A", "N", "D", " ", "O", "r", "g", "a", "n", " ", "=", " ", "'", "B", "'">>,
      <<"d", "o", "n", "o", "r", "_", "i", "d", " ", "=", " ", "1">> }

SpecialFiltersInputs ==
    { <<>>, <<"a", "t", "_", "l", "e", "a", "s", "t", "_", "X", "_", "d", "i", "s", "t", "i", "n", "c", "t", "_", "p", "a", "t", "i", "e", "n", "t", "s", ";", "1">>,
      <<"a", "t", "_", "l", "e", "a", "s", "t", "_", "X", "_", "d", "i", "s", "t", "i", "n", "c", "t", "_", "p", "a", "t", "i", "e", "n", "t", "s", ";", "0">> }

ColumnInputs == { <<>>, <<"A", "F">>, <<"A", "F", "\"", " ", "O", "R", " ", "\"", "A", "F">> }

FilterTypeInputs == { <<>>, <<"b", "e", "t", "w", "e", "e", "n">> }

ValueInputs == { <<>>, <<"0", ".", "0", "1", ",", "0", ".", "5">>, <<"0", ".", "5">>, <<"0", ",", "1", ",", "2">> }

\* <<page, limit>>
PagingInputs == { <<<<>>, <<>>>>, <<<<"1">>, <<"2">>>> }

\* <<groupBy, topN>>
GroupingInputs == { <<<<>>, <<>>>>, <<<<"O", "r", "g", "a", "n">>, <<"1">>>> }

SuggestColumnInputs == { <<>>, <<"g", "c", "_", "c", "o", "n", "t", "e", "n", "t">>, <<"C", "a", "n", "c", "e", "r", "_", "T", "y", "p", "e">>, <<"n", "u", "l", "l", "o", "m", "e", "r", "s", "_", "c", "r", "e", "a", "t", "e", "d">>, <<"A", "F">>, <<"n", "o", "p", "e">> }

SuggestInputInputs == { <<>>, <<"a">>, <<"G">>, <<"'">> }

DonorInputs == { <<>>, DonorName(1), DonorName(2) }

TopNInputs == { <<>>, <<"1">>, <<"0">> }

PrefixInputs == { <<>>, <<"A">>, <<"G">>, <<"_", "A">> }

NeomerInputs ==
    { <<>>, Rep("A", MinLength - 1), SequenceText(1, MinLength), SequenceText(2, MinLength),
      SequenceText(3, MinLength), SequenceText(1, MaxLength), Rep("A", MaxLength + 1) }

Init ==
    /\ db = SampleDb
    /\ req = NoRequest
    /\ resp = NoResponse
    /\ queries = <<>>
    /\ history = <<>>
    /\ sequence = <<>>
    /\ gc = 0

GetNullomers ==
    \E length \in LengthInputs, pl \in PagingInputs, filters \in FiltersInputs,
       specialFilters \in SpecialFiltersInputs, column \in ColumnInputs,
       filterType \in FilterTypeInputs, value \in ValueInputs :
        getNullomersHandler(length, pl[1], pl[2], filters, specialFilters,
                            column, filterType, value)

GetNullomersStats ==
    \E length \in LengthInputs, gt \in GroupingInputs, filters \in FiltersInputs,
       specialFilters \in SpecialFiltersInputs, column \in ColumnInputs,
       filterType \in FilterTypeInputs, value \in ValueInputs :
        getNullomersStatsHandler(length, filters, specialFilters, gt[1], gt[2],
                                 column, filterType, value)

GetExomeNullomers ==
    \E length \in LengthInputs, pl \in PagingInputs, filters \in FiltersInputs,
       specialFilters \in SpecialFiltersInputs, column \in ColumnInputs,
       filterType \in FilterTypeInputs, value \in ValueInputs :
        getExomeNullomersHandler(length, pl[1], pl[2], filters, specialFilters,
                                 column, filterType, value)

GetExomeNullomersStats ==
    \E length \in LengthInputs, gt \in GroupingInputs, filters \in FiltersInputs,
       specialFilters \in SpecialFiltersInputs, column \in ColumnInputs,
       filterType \in FilterTypeInputs, value \in ValueInputs :
        getExomeNullomersStatsHandler(length, filters, specialFilters, gt[1], gt[2],
                                      column, filterType, value)

GetSuggestions ==
    \E column \in SuggestColumnInputs, input \in SuggestInputInputs, length \in LengthInputs :
        getSuggestionsHandler(column, input, length)

GetExomeSuggestions ==
    \E column \in SuggestColumnInputs, input \in SuggestInputInputs, length \in LengthInputs :
        getExomeSuggestionsHandler(column, input, length)

GetPatientNeomers ==
    \E donorID \in DonorInputs, length \in LengthInputs, topN \in TopNInputs,
       prefix \in PrefixInputs :
        getPatientNeomersHandler(donorID, length, topN, prefix)

GetExomePatientNeomers ==
    \E donorID \in DonorInputs, length \in LengthInputs, topN \in TopNInputs,
       prefix \in PrefixInputs :
        getExomePatientNeomersHandler(donorID, length, topN, prefix)

AnalyzeNeomer == \E neomer \in NeomerInputs : analyzeNeomerHandler(neomer)

ExomeAnalyzeNeomer == \E neomer \in NeomerInputs : getExomeAnalyzeNeomerHandler(neomer)

GetPatientDetails ==
    \E donorID \in DonorInputs, failing \in FailingInputs :
        getPatientDetailsHandler(donorID, failing)

GetExomePatientDetails ==
    \E donorID \in DonorInputs, failing \in FailingInputs :
        getExomePatientDetailsHandler(donorID, failing)

GetJaccardIndex == \E K \in KInputs : getJaccardIndexHandler(K)

GetJaccardIndexOrgans == \E K \in KInputs : getJaccardIndexOrgansHandler(K)

Next ==
    \/ Idle /\ GetNullomers /\ UNCHANGED history
    \/ Idle /\ GetNullomersStats /\ UNCHANGED history
    \/ Idle /\ GetExomeNullomers /\ UNCHANGED history
    \/ Idle /\ GetExomeNullomersStats /\ UNCHANGED history
    \/ Idle /\ GetSuggestions /\ UNCHANGED history
    \/ Idle /\ GetExomeSuggestions /\ UNCHANGED history
    \/ Idle /\ GetPatientNeomers /\ UNCHANGED history
    \/ Idle /\ GetExomePatientNeomers /\ UNCHANGED history
    \/ Idle /\ AnalyzeNeomer /\ UNCHANGED history
    \/ Idle /\ ExomeAnalyzeNeomer /\ UNCHANGED history
    \/ Idle /\ GetPatientDetails /\ UNCHANGED history
    \/ Idle /\ GetExomePatientDetails /\ UNCHANGED history
    \/ Idle /\ GetJaccardIndex /\ UNCHANGED history
    \/ Idle /\ GetJaccardIndexOrgans /\ UNCHANGED history

Spec == Init /\ [][Next]_vars


(***************************************************************************)
(* Properties of the gc_content expression (SpecGc)                        *)
(***************************************************************************)
\* number of characters of s that are ch in either case
RECURSIVE CountCI(_, _)
CountCI(s, ch) ==
    IF s = <<>> THEN 0
    ELSE (IF ToUpperChar(Head(s)) = ch THEN 1 ELSE 0) + CountCI(Tail(s), ch)

\* -round(100 * (G_count + C_count) / L, 2), in hundredths
NegatedGcPercent(s) ==
    -RoundScaled(100 * (CountCI(s, "G") + CountCI(s, "C")), Len(s), 100)

GcEvaluated == req.endpoint = "base"

\* C4: for every sequence of length 11..20 the gc_content column equals
\* -round(100 * (G_count + C_count) / L, 2), G and C counted in either case
\* (eleven A's give 0, GGGGGCCCCCC gives -100.0).
C4_GcContentFormula == GcEvaluated => gc = NegatedGcPercent(sequence)

\* C5: every gc_content the base query produces is <= 0.
C5_GcContentNonPositive == GcEvaluated => gc <= 0

(***************************************************************************)
(* Properties of the similarity endpoints (SpecJaccard)                    *)
(***************************************************************************)
IsJaccard == req.endpoint \in {"jaccard_index", "jaccard_index_organs"}

JaccardLabelCol == IF req.endpoint = "jaccard_index" THEN "Cancer_Type" ELSE "Organ"

\* the labels carried by some row of the length-K table that has a
\* cancer_type_details row for its project
LabelsInJoin(col) ==
    { db.details[n.project][col] :
        n \in { m \in db.neomers : db.details[m.project].present } } \ {NULL}

DistinctSeqsOf(col, l) ==
    { n.seq : n \in { m \in db.neomers : /\ db.details[m.project].present
                                         /\ db.details[m.project][col] = l } }

\* C10: for every label A that occurs in the length-K join the result has
\* the pair (A, A) with jaccard_index exactly 1.0, whatever count(A) is.
C10_JaccardSelfPair ==
    (IsJaccard /\ resp.status = StatusOK) =>
        \A l \in LabelsInJoin(JaccardLabelCol) :
            /\ \E i \in 1..Len(resp.body) : resp.body[i].a = l /\ resp.body[i].b = l
            /\ \A i \in 1..Len(resp.body) :
                  (resp.body[i].a = l /\ resp.body[i].b = l)
                      => resp.body[i].jaccard_index = 10000

\* a label carried by two distinct sequences, next to another label, answered
C10_Witness ==
    /\ IsJaccard /\ resp.status = StatusOK
    /\ \E l \in LabelsInJoin(JaccardLabelCol) :
          /\ Cardinality(DistinctSeqsOf(JaccardLabelCol, l)) >= 2
          /\ \E i \in 1..Len(resp.body) :
                resp.body[i].a = l /\ resp.body[i].b = l
                /\ resp.body[i].jaccard_index = 10000
    /\ Cardinality(LabelsInJoin(JaccardLabelCol)) >= 2

\* the number of distinct sequences label l carries in the length-K join
CountOf(l) == Cardinality(DistinctSeqsOf(JaccardLabelCol, l))

\* the number of distinct sequences carried by both labels
SharedBy(a, b) ==
    Cardinality(DistinctSeqsOf(JaccardLabelCol, a) \cap DistinctSeqsOf(JaccardLabelCol, b))

JaccardAnswered == IsJaccard /\ resp.status = StatusOK

\* C11: for labels A # B of the result the rows (A, B) and (B, A) both exist
\* and carry the same intersection_count, union_count and jaccard_index.
C11_JaccardSymmetric ==
    JaccardAnswered =>
        \A i \in 1..Len(resp.body) :
            resp.body[i].a # resp.body[i].b =>
                /\ \E j \in 1..Len(resp.body) :
                      resp.body[j].a = resp.body[i].b /\ resp.body[j].b = resp.body[i].a
                /\ \A j \in 1..Len(resp.body) :
                      (resp.body[j].a = resp.body[i].b /\ resp.body[j].b = resp.body[i].a) =>
                          /\ resp.body[j].intersection_count = resp.body[i].intersection_count
                          /\ resp.body[j].union_count = resp.body[i].union_count
                          /\ resp.body[j].jaccard_index = resp.body[i].jaccard_index

\* two labels of different sizes that share a sequence, answered
C11_Witness ==
    /\ JaccardAnswered
    /\ \E i \in 1..Len(resp.body) :
          /\ resp.body[i].a # resp.body[i].b
          /\ resp.body[i].intersection_count >= 1
          /\ CountOf(resp.body[i].a) # CountOf(resp.body[i].b)

\* C12: in every row union_count = count(A) + count(B) - intersection_count,
\* intersection_count being the number of distinct sequences both labels
\* carry, and when union_count > 0 jaccard_index is intersection_count /
\* union_count rounded to 4 places (half away from zero), also for A = B.
C12_JaccardUnionArithmetic ==
    JaccardAnswered =>
        \A i \in 1..Len(resp.body) :
            LET row   == resp.body[i]
                inter == SharedBy(row.a, row.b)
                uni   == CountOf(row.a) + CountOf(row.b) - inter
            IN  /\ row.intersection_count = inter
                /\ row.union_count = uni
                /\ uni > 0 =>
                      /\ 2 * row.jaccard_index * uni - uni <= 2 * inter * 10000
                      /\ 2 * inter * 10000 < 2 * row.jaccard_index * uni + uni

\* a pair whose quotient is rounded up in the fourth place (2/3 is 0.6667)
C12_Witness ==
    /\ JaccardAnswered
    /\ \E i \in 1..Len(resp.body) :
          /\ resp.body[i].a # resp.body[i].b
          /\ resp.body[i].union_count > 0
          /\ resp.body[i].jaccard_index >
                (resp.body[i].intersection_count * 10000) \div resp.body[i].union_count

\* C13: the result has exactly one row for each ordered pair of labels of
\* the length-K join, (A, A) included, so N labels give N * N rows, and
\* the rows ascend by (A, B).
C13_JaccardAllOrderedPairs ==
    JaccardAnswered =>
        LET L == LabelsInJoin(JaccardLabelCol)
        IN  /\ Len(resp.body) = Cardinality(L) * Cardinality(L)
            /\ \A a \in L : \A b \in L :
                  Cardinality({ i \in 1..Len(resp.body) :
                                  resp.body[i].a = a /\ resp.body[i].b = b }) = 1
            /\ \A i \in 1..Len(resp.body) : \A j \in 1..Len(resp.body) :
                  i < j =>
                      \/ LabelRank(resp.body[i].a) < LabelRank(resp.body[j].a)
                      \/ /\ resp.body[i].a = resp.body[j].a
                         /\ LabelRank(resp.body[i].b) < LabelRank(resp.body[j].b)

\* two labels in the join, four rows answered, B before A in the table
C13_Witness ==
    /\ JaccardAnswered
    /\ Cardinality(LabelsInJoin(JaccardLabelCol)) = 2
    /\ Len(resp.body) = 4
    /\ db.details[1].present /\ db.details[2].present
    /\ LabelRank(db.details[1][JaccardLabelCol]) > LabelRank(db.details[2][JaccardLabelCol])

\* C14: every row has 0 <= jaccard_index <= 1,
\* 0 <= intersection_count <= min(count(A), count(B)) and
\* union_count >= max(count(A), count(B)) >= 1.
C14_JaccardBounds ==
    JaccardAnswered =>
        \A i \in 1..Len(resp.body) :
            LET row == resp.body[i]
                cA  == CountOf(row.a)
                cB  == CountOf(row.b)
            IN  /\ 0 <= row.jaccard_index /\ row.jaccard_index <= 10000
                /\ 0 <= row.intersection_count
                /\ row.intersection_count <= cA /\ row.intersection_count <= cB
                /\ row.union_count >= cA /\ row.union_count >= cB
                /\ cA >= 1 /\ cB >= 1

\* a label whose sequences are all carried by a larger label: the
\* intersection is the smaller count and the union the larger
C14_Witness ==
    /\ JaccardAnswered
    /\ \E i \in 1..Len(resp.body) :
          /\ resp.body[i].a # resp.body[i].b
          /\ resp.body[i].intersection_count = CountOf(resp.body[i].a)
          /\ CountOf(resp.body[i].a) < CountOf(resp.body[i].b)
          /\ resp.body[i].union_count = CountOf(resp.body[i].b)

\* K is the decimal text of an integer > 0
PositiveIntegerText(K) == Atoi(K).ok /\ Atoi(K).val > 0

\* C15: a missing K, a K that is not a number, K = 0 and a negative K are
\* answered 400 and no query is issued.
C15_JaccardRejectsNonPositiveK ==
    (IsJaccard /\ ~PositiveIntegerText(req.K)) =>
        (resp.status = StatusBadRequest /\ queries = <<>>)

(***************************************************************************)
(* Properties of the per-length endpoints (Spec)                           *)
(***************************************************************************)
PerLengthEndpoints ==
    { "get_nullomers", "get_nullomers_stats", "get_suggestions",
      "get_exome_nullomers", "get_exome_nullomers_stats", "get_exome_suggestions",
      "patient_neomers", "analyze_neomer", "exome_analyze_neomer",
      "jaccard_index", "jaccard_index_organs" }

FilterEndpoints ==
    { "get_nullomers", "get_nullomers_stats",
      "get_exome_nullomers", "get_exome_nullomers_stats" }

\* is the text the decimal numeral of an integer in 11..20
LengthInDomain(text) ==
    /\ text # <<>>
    /\ AllDigits(text)
    /\ DigitsValue(text, 0) >= MinLength
    /\ DigitsValue(text, 0) <= MaxLength

\* the length, the K or the inferred sequence length of the request
RequestLengthInDomain ==
    IF req.endpoint \in {"analyze_neomer", "exome_analyze_neomer"}
    THEN Len(req.neomer) >= MinLength /\ Len(req.neomer) <= MaxLength
    ELSE IF req.endpoint \in {"jaccard_index", "jaccard_index_organs"}
    THEN LengthInDomain(req.K)
    ELSE LengthInDomain(req.length)

\* C1: on every endpoint that selects a per-length table, each query that
\* is issued names a table whose suffix is an integer in 11..20, and a
\* request whose length (or inferred sequence length, or K) is outside
\* 11..20 or not an integer is answered with 400 without any query.
C1_LengthValidatedBeforeQuery ==
    req.endpoint \in PerLengthEndpoints =>
        /\ \A i \in 1..Len(queries) : LengthInDomain(queries[i].table.suffix)
        /\ ~RequestLengthInDomain => (resp.status = StatusBadRequest /\ queries = <<>>)

RangeRequested ==
    /\ req.endpoint \in FilterEndpoints
    /\ req.column # <<>>
    /\ req.filterType = Str_between

ClausesOf(where, channel) ==
    { i \in 1..Len(where) : where[i].channel = channel }

\* C6: on the filtered and stats endpoints, when column, filterType=between
\* and a two-part value come together with a non-empty filters parameter,
\* the WHERE predicate of every query holds the range predicate and none of
\* the conditions of the legacy filters string.
C6_RangeWinsOverFilters ==
    (/\ RangeRequested
     /\ Len(Split(req.value, <<",">>)) = 2
     /\ req.filters # <<>>)
    => \A i \in 1..Len(queries) :
          /\ ClausesOf(queries[i].where, "range") # {}
          /\ ClausesOf(queries[i].where, "legacy") = {}

\* the WHERE predicate of the request when column, filterType and value are
\* taken away from it
WhereWithoutRange ==
    IF req.endpoint \in {"get_nullomers", "get_nullomers_stats"}
    THEN genomeWhereClauses(req.length, req.filters, req.specialFilters, <<>>, <<>>, <<>>)
    ELSE exomeWhereParts(req.length, req.filters, req.specialFilters)

\* C8: when column and filterType=between are present and value does not
\* split on ',' into exactly two parts, no range predicate is emitted, the
\* answer is no 400, and the legacy and special filters are compiled as
\* they are when the range parameters are absent.
C8_MalformedRangeDropped ==
    (/\ RangeRequested
     /\ req.length # <<>>
     /\ Len(Split(req.value, <<",">>)) # 2)
    => /\ resp.status # StatusBadRequest
       /\ \A i \in 1..Len(queries) :
             /\ ClausesOf(queries[i].where, "range") = {}
             /\ queries[i].where = WhereWithoutRange

\* C9: in every range predicate that is emitted, the column name between
\* the double quotes is made of ASCII letters, digits and underscore only.
C9_RangeColumnSanitized ==
    req.endpoint \in FilterEndpoints =>
        \A i \in 1..Len(queries) :
            \A k \in ClausesOf(queries[i].where, "range") :
                \A a \in 1..Len(queries[i].where[k].atoms) :
                    \A c \in 1..Len(queries[i].where[k].atoms[a].col) :
                        IsIdentChar(queries[i].where[k].atoms[a].col[c])

(***************************************************************************)
(* Specification of the filter endpoints over bounded databases            *)
(***************************************************************************)
MaxRows == 2    \* rows of the per-length table

DataRows ==
    { NeomerRow(s, d, 1, af) : s \in {1, 2}, d \in DonorIds, af \in {<<>>, <<5>>, <<60>>} }

DataDbs ==
    { [neomers |-> n,
       details |-> [p \in ProjectCodes |-> Detail("A", "B")],
       mapping |-> m,
       donors  |-> [a \in ActualIds |-> Detail("A", "A")]] :
        n \in { S \in SUBSET DataRows : Cardinality(S) <= MaxRows },
        m \in [DonorIds -> {<<>>} \cup { <<a>> : a \in ActualIds }] }

\* <<column, filterType, value>>
RangeInputs ==
    { <<<<>>, <<>>, <<>>>>,
      <<Col_AF, Str_between, <<"0", ".", "0", "1", ",", "0", ".", "5">>>>,
      <<Col_AF, Str_between, <<"0", ".", "1", ",", "1">>>>,
      <<Col_gc_content, Str_between, <<"9", "5", ",", "1", "0", "0">>>> }

DistinctPatientsInputs ==
    { <<>>, <<"a", "t", "_", "l", "e", "a", "s", "t", "_", "X", "_", "d", "i", "s", "t", "i", "n", "c", "t", "_", "p", "a", "t", "i", "e", "n", "t", "s", ";", "1">>, <<"a", "t", "_", "l", "e", "a", "s", "t", "_", "X", "_", "d", "i", "s", "t", "i", "n", "c", "t", "_", "p", "a", "t", "i", "e", "n", "t", "s", ";", "2">> }

InitData ==
    /\ db \in DataDbs
    /\ req = NoRequest
    /\ resp = NoResponse
    /\ queries = <<>>
    /\ history = <<>>
    /\ sequence = <<>>
    /\ gc = 0

NextData ==
    \/ /\ Idle
       /\ \E range \in RangeInputs, specialFilters \in DistinctPatientsInputs :
             getNullomersHandler(<<"1", "1">>, <<>>, <<>>, <<>>, specialFilters,
                                 range[1], range[2], range[3])
       /\ UNCHANGED history
    \/ /\ Idle
       /\ \E range \in RangeInputs, specialFilters \in DistinctPatientsInputs :
             getNullomersStatsHandler(<<"1", "1">>, <<>>, specialFilters, <<>>, <<>>,
                                      range[1], range[2], range[3])
       /\ UNCHANGED history
    \/ /\ Idle
       /\ \E range \in RangeInputs, specialFilters \in DistinctPatientsInputs :
             getExomeNullomersHandler(<<"1", "1">>, <<>>, <<>>, <<>>, specialFilters,
                                      range[1], range[2], range[3])
       /\ UNCHANGED history

SpecData == InitData /\ [][NextData]_vars

(***************************************************************************)
(* Specification of two successive page requests                           *)
(***************************************************************************)
MaxRequests == 2    \* requests of one behaviour

PageInputs == { <<"0">>, <<"1">> }

LimitInputs == { <<"1">>, <<"2">> }

PageFiltersInputs == { <<>>, <<"A", "F", " ", ">", " ", "0", ".", "0", "1">> }

Exchange == [req |-> req', resp |-> resp']

InitPage == Init

NextPage ==
    \/ /\ Len(history) < MaxRequests
       /\ \E page \in PageInputs, limit \in LimitInputs, filters \in PageFiltersInputs :
             getNullomersHandler(<<"1", "1">>, page, limit, filters, <<>>, <<>>, <<>>, <<>>)
       /\ history' = Append(history, Exchange)
    \/ /\ Len(history) < MaxRequests
       /\ \E page \in PageInputs, limit \in LimitInputs, filters \in PageFiltersInputs :
             getExomeNullomersHandler(<<"1", "1">>, page, limit, filters, <<>>, <<>>, <<>>, <<>>)
       /\ history' = Append(history, Exchange)

SpecPage == InitPage /\ [][NextPage]_vars

(***************************************************************************)
(* Properties of the filter endpoints (SpecData, SpecPage)                 *)
(***************************************************************************)
\* the join the main query of the request selects its rows from
MainFrom ==
    IF req.endpoint \in {"get_nullomers", "get_nullomers_stats"}
    THEN GenomeBaseFrom(req.length) ELSE ExomeBaseFrom(req.length)

\* the N of a request whose specialFilters is at_least_X_distinct_patients;N
RequestedPatients ==
    LET sf == Split(req.specialFilters, <<";">>)
    IN  IF Len(sf) = 2 /\ sf[1] = Str_at_least_X_distinct_patients /\ Atoi(sf[2]).ok
        THEN Atoi(sf[2]).val ELSE 0

\* the distinct donors the mapping bridges sequence s to, over the main join
BridgedDonors(s) ==
    { r.actual : r \in { x \in JoinRows(db, MainFrom) : x.seq = s /\ x.actual # <<>> } }

ReturnedRows == { resp.body.data[i] : i \in 1..Len(resp.body.data) }

\* C2: with the special filter at_least_X_distinct_patients;N alone, N > 0,
\* the filtered endpoints return exactly the rows of the main join whose
\* sequence has at least N distinct donors, counted through the
\* donor-identifier mapping over that same join.
C2_DistinctPatientsOverMainJoin ==
    (/\ req.endpoint \in {"get_nullomers", "get_exome_nullomers"}
     /\ RequestedPatients > 0
     /\ ~RangeRequested)
    => /\ resp.status = StatusOK
       /\ ReturnedRows =
            { r \in JoinRows(db, MainFrom) :
                Cardinality(BridgedDonors(r.seq)) >= RequestedPatients }

\* the bounds of a value "min,max" with numeric min and max
RangeIsNumeric ==
    LET parts == Split(req.value, <<",">>)
    IN  Len(parts) = 2 /\ ParseNumber(parts[1]).ok /\ ParseNumber(parts[2]).ok

\* min <= v <= max, v in hundredths; NULL is in no range
InRequestedRange(v) ==
    LET parts == Split(req.value, <<",">>)
        lo    == ParseNumber(parts[1])
        hi    == ParseNumber(parts[2])
    IN  /\ v # <<>>
        /\ v[1] * lo.den >= 100 * lo.num
        /\ v[1] * hi.den <= 100 * hi.num

RangeAnswered ==
    /\ req.endpoint \in {"get_nullomers", "get_nullomers_stats"}
    /\ RangeRequested
    /\ RangeIsNumeric
    /\ resp.status = StatusOK

PageZeroThenOne(a, b) ==
    /\ a.req.page = <<"0">>
    /\ b.req.page = <<"1">>
    /\ [a.req EXCEPT !.page = <<>>] = [b.req EXCEPT !.page = <<>>]
    /\ a.resp.status = StatusOK
    /\ b.resp.status = StatusOK

\* C3: for fixed database contents and a fixed filter set, the rows of
\* page 0 and the rows of page 1 (same limit) are disjoint: the order the
\* data query paginates over is the same in every execution.
C3_PagesDisjoint ==
    \A i, j \in 1..Len(history) :
        PageZeroThenOne(history[i], history[j]) =>
            \A x \in 1..Len(history[i].resp.body.data) :
                \A y \in 1..Len(history[j].resp.body.data) :
                    history[i].resp.body.data[x] # history[j].resp.body.data[y]


(***************************************************************************)
(* Specification of the paging parameters (SpecPaging)                     *)
(***************************************************************************)
PagingPageInputs == { <<>>, <<"0">>, <<"2">>, <<"-", "1">>, <<"x">> }

PagingLimitInputs ==
    { <<>>, <<"1">>, <<"3">>, <<"0">>, <<"-", "5">>, <<"1", "0", "0", "0", "0">>, <<"1", "0", "0", "0", "1">>, <<"a", "b", "c">> }

InitPaging == Init

NextPaging ==
    \/ /\ Idle
       /\ \E page \in PagingPageInputs, limit \in PagingLimitInputs :
             getNullomersHandler(<<"1", "1">>, page, limit, <<>>, <<>>, <<>>, <<>>, <<>>)
       /\ UNCHANGED history
    \/ /\ Idle
       /\ \E page \in PagingPageInputs, limit \in PagingLimitInputs :
             getExomeNullomersHandler(<<"1", "1">>, page, limit, <<>>, <<>>, <<>>, <<>>, <<>>)
       /\ UNCHANGED history

SpecPaging == InitPaging /\ [][NextPaging]_vars

(***************************************************************************)
(* Properties of the paging parameters (SpecPaging, SpecPage)              *)
(***************************************************************************)
Paginated == req.endpoint \in {"get_nullomers", "get_exome_nullomers"}

\* the request got as far as its data query
DataQueryIssued == Paginated /\ Len(queries) = 2

\* C16: the limit of the data query is in 1..10000: the supplied limit when
\* that is an integer in 1..10000, and 10000 when limit is absent, not an
\* integer, <= 0 or > 10000.
C16_EffectiveLimitInRange ==
    DataQueryIssued =>
        /\ queries[2].limit \in 1..10000
        /\ queries[2].limit =
              (IF /\ Atoi(req.limit).ok
                  /\ Atoi(req.limit).val >= 1
                  /\ Atoi(req.limit).val <= 10000
               THEN Atoi(req.limit).val ELSE 10000)

\* an exome request whose limit is above the ceiling, answered with the
\* ceiling in its data query
C16_Witness ==
    /\ req.endpoint = "get_exome_nullomers"
    /\ Len(queries) = 2
    /\ Atoi(req.limit).ok /\ Atoi(req.limit).val > 10000
    /\ queries[2].limit = 10000
    /\ resp.status = StatusOK

\* C17: the page the data query is built from is never negative: the
\* supplied page when that is an integer >= 0, and 0 when page is absent,
\* not an integer or negative; the OFFSET is that page times the limit.
C17_EffectivePageNonNegative ==
    DataQueryIssued =>
        /\ queries[2].offset >= 0
        /\ queries[2].offset =
              (IF Atoi(req.page).ok /\ Atoi(req.page).val >= 0
               THEN Atoi(req.page).val ELSE 0) * queries[2].limit

\* the number of rows LIMIT limit OFFSET offset leaves of total rows
ExpectedPageLength(total, limit, offset) ==
    IF offset >= total THEN 0
    ELSE IF limit <= total - offset THEN limit ELSE total - offset

\* two requests that differ in page and limit only
SameFilterSet(a, b) ==
    [a EXCEPT !.page = <<>>, !.limit = <<>>] = [b EXCEPT !.page = <<>>, !.limit = <<>>]

\* C18: the COUNT query and the data query of a request have the same WHERE
\* over the same join, the page holds the rows LIMIT/OFFSET leave of
\* totalCount rows, and requests that differ in page and limit only report
\* the same totalCount.
C18_CountMatchesDataQuery ==
    /\ (Paginated /\ resp.status = StatusOK) =>
          /\ Len(queries) = 2
          /\ queries[1].kind = "count" /\ queries[2].kind = "page"
          /\ queries[1].where = queries[2].where
          /\ queries[1].from = queries[2].from
          /\ Len(resp.body.data) =
                ExpectedPageLength(resp.body.totalCount, queries[2].limit, queries[2].offset)
    /\ \A i \in 1..Len(history) : \A j \in 1..Len(history) :
          (/\ SameFilterSet(history[i].req, history[j].req)
           /\ history[i].resp.status = StatusOK
           /\ history[j].resp.status = StatusOK)
          => history[i].resp.body.totalCount = history[j].resp.body.totalCount

\* a filter that keeps some rows of base and drops others, asked for twice
\* with different pages, one page shorter than totalCount
C18_Witness ==
    /\ Len(history) = 2
    /\ history[1].req # history[2].req
    /\ SameFilterSet(history[1].req, history[2].req)
    /\ history[1].req.filters # <<>>
    /\ history[1].resp.status = StatusOK
    /\ history[2].resp.status = StatusOK
    /\ history[1].resp.body.totalCount >= 1
    /\ history[1].resp.body.totalCount < Cardinality(JoinRows(db, queries[1].from))
    /\ Len(history[2].resp.body.data) < history[2].resp.body.totalCount


(***************************************************************************)
(* Properties of failures and of lookups that find nothing (Spec)          *)
(***************************************************************************)
SuggestionEndpoints == { "get_suggestions", "get_exome_suggestions" }

\* a query the engine could not execute: it was made to fail, or it names
\* a table the database does not have
KnownFailed(q) == IF "failed" \in DOMAIN q THEN q.failed ELSE ~TableExists(q.table)

\* C19: when a query of the request fails, a suggestion endpoint answers
\* 200 with an empty list; every other endpoint answers 500, and the query
\* that failed is not issued again.
C19_FailuresSurfaceExceptSuggestions ==
    \A i \in 1..Len(queries) :
        KnownFailed(queries[i]) =>
            IF req.endpoint \in SuggestionEndpoints
            THEN resp.status = StatusOK /\ resp.body.suggestions = <<>>
            ELSE /\ resp.status = StatusInternalServerError
                 /\ \A j \in 1..Len(queries) : queries[j] = queries[i] => j = i

LookupEndpoints ==
    { "patient_details", "exome_patient_details", "patient_neomers",
      "exome_patient_neomers", "analyze_neomer", "exome_analyze_neomer" }

\* is the id the Actual_Donor_ID of a mapping row or of a donor row
DonorExists(id) == MappedDonorIds(db, id) # {} \/ DonorRows(db, id) # {}

\* is the text a nullomers_created of the table of its length
SequenceExists(text) ==
    /\ TableExists(Table("neomers_", Itoa(Len(text))))
    /\ \E n \in db.neomers : SequenceText(n.seq, Len(text)) = text

\* the request names a donor or a sequence the database does not hold
NonexistentEntity ==
    IF req.endpoint \in {"analyze_neomer", "exome_analyze_neomer"}
    THEN req.neomer # <<>> /\ ~SequenceExists(req.neomer)
    ELSE req.donor_id # <<>> /\ ~DonorExists(req.donor_id)

\* the other parameters of the request are as the endpoint documents them
WellFormedLookup ==
    CASE req.endpoint \in {"patient_neomers", "exome_patient_neomers"} ->
            LengthInDomain(req.length)
      [] req.endpoint \in {"analyze_neomer", "exome_analyze_neomer"} ->
            Len(req.neomer) >= MinLength /\ Len(req.neomer) <= MaxLength
      [] OTHER -> TRUE

EmptyPayload ==
    CASE req.endpoint \in {"patient_details", "exome_patient_details"} ->
            resp.body.patient = <<>>
      [] req.endpoint \in {"patient_neomers", "exome_patient_neomers"} ->
            resp.body.neomers = <<>>
      [] req.endpoint = "analyze_neomer" ->
            /\ resp.body.totalNeomers = 0
            /\ resp.body.cancerBreakdown = <<>>
            /\ resp.body.distinctDonorIDs = <<>>
      [] OTHER ->
            /\ resp.body.cancerBreakdown = <<>>
            /\ resp.body.organBreakdown = <<>>
            /\ resp.body.distinctDonorIDs = <<>>

\* C20: a lookup of a donor or sequence the database does not hold, none of
\* whose queries the engine fails to execute, is never answered 404 or 500,
\* and is answered 200 with a null or empty payload when the rest of the
\* request is well formed.
C20_MissingEntityIsEmptySuccess ==
    (/\ req.endpoint \in LookupEndpoints
     /\ NonexistentEntity
     /\ \A i \in 1..Len(queries) : "failed" \in DOMAIN queries[i] => ~queries[i].failed)
    => /\ resp.status \notin {404, StatusInternalServerError}
       /\ WellFormedLookup => (resp.status = StatusOK /\ EmptyPayload)


(***************************************************************************)
(* Specification of the filter compiler (SpecCompile): one request to a    *)
(* filter endpoint, over the filters and specialFilters parameters         *)
(***************************************************************************)
CompileFiltersInputs ==
    { <<>>, <<" ">>, <<"A", "F", " ", ">", " ", "0", ".", "1">>, <<"O", "r", "g", "a", "n", " ", "=", " ", "'", "B", "'">>, <<"d", "o", "n", "o", "r", "_", "a", "g", "e", "_", "a", "t", "_", "d", "i", "a", "g", "n", "o", "s", "i", "s", " ", ">", " ", "5">>,
      <<"A", "F", " ", ">", " ", "0", ".", "1", " ", "O", "R", " ", "A", "F", " ", "<", " ", "0", ".", "0", "5">>, <<"O", "r", "g", "a", "n", " ", "=", " ", "'", "B", "'", " ", "O", "R", " ", "1", "=", "1">>, <<"O", "r", "g", "a", "n", " ", "=", " ", "(", "'", "B", "'", ")">>,
      <<"A", "F", " ", ">", "(", " ", "0", ".", "1">>, <<"(", "A", "F", " ", ">", " ", "(", "0", ".", "1", ")">>, <<"\"", "\"", " ", "=", " ", "1">>, <<"A", "F", " ", ">", " ", "A", "N", "D", " ", "g", "c", "_", "c", "o", "n", "t", "e", "n", "t", " ", ">", "=", " ", "5", "0">>,
      <<"A", "F", " ", "A", "N", "D", " ", "g", "c", "_", "c", "o", "n", "t", "e", "n", "t", " ", ">", "=", " ", "5", "0">> }

CompileSpecialInputs ==
    { <<>>, <<"a", "t", "_", "l", "e", "a", "s", "t", "_", "X", "_", "d", "i", "s", "t", "i", "n", "c", "t", "_", "p", "a", "t", "i", "e", "n", "t", "s", ";", "1">>, <<"a", "t", "_", "l", "e", "a", "s", "t", "_", "X", "_", "d", "i", "s", "t", "i", "n", "c", "t", "_", "p", "a", "t", "i", "e", "n", "t", "s", ";", "0">>,
      <<"a", "t", "_", "l", "e", "a", "s", "t", "_", "X", "_", "d", "i", "s", "t", "i", "n", "c", "t", "_", "p", "a", "t", "i", "e", "n", "t", "s", ";", "-", "2">>, <<"a", "t", "_", "l", "e", "a", "s", "t", "_", "X", "_", "d", "i", "s", "t", "i", "n", "c", "t", "_", "p", "a", "t", "i", "e", "n", "t", "s", ";", "x">>,
      <<"a", "t", "_", "l", "e", "a", "s", "t", "_", "X", "_", "d", "i", "s", "t", "i", "n", "c", "t", "_", "p", "a", "t", "i", "e", "n", "t", "s">>, <<"a", "t", "_", "l", "e", "a", "s", "t", "_", "X", "_", "d", "i", "s", "t", "i", "n", "c", "t", "_", "p", "a", "t", "i", "e", "n", "t", "s", ";", "1", ";", "2">>,
      <<"a", "t", "_", "m", "o", "s", "t", "_", "X", "_", "d", "i", "s", "t", "i", "n", "c", "t", "_", "p", "a", "t", "i", "e", "n", "t", "s", ";", "1">>,
      <<"a", "t", "_", "m", "o", "s", "t", "_", "X", "_", "d", "i", "s", "t", "i", "n", "c", "t", "_", "p", "a", "t", "i", "e", "n", "t", "s", ";", "1", "|", "a", "t", "_", "l", "e", "a", "s", "t", "_", "X", "_", "d", "i", "s", "t", "i", "n", "c", "t", "_", "p", "a", "t", "i", "e", "n", "t", "s", ";", "2">> }

\* <<column, filterType, value>>
CompileRangeInputs == { <<<<>>, <<>>, <<>>>>, <<<<"A", "F">>, <<"b", "e", "t", "w", "e", "e", "n">>, <<"0", ".", "0", "1", ",", "0", ".", "5">>>> }

InitCompile == Init

NextCompile ==
    \/ /\ Idle
       /\ \E f \in CompileFiltersInputs, sf \in CompileSpecialInputs, r \in CompileRangeInputs :
             getNullomersHandler(<<"1", "1">>, <<>>, <<>>, f, sf, r[1], r[2], r[3])
       /\ UNCHANGED history
    \/ /\ Idle
       /\ \E f \in CompileFiltersInputs, sf \in CompileSpecialInputs, r \in CompileRangeInputs :
             getNullomersStatsHandler(<<"1", "1">>, f, sf, <<>>, <<>>, r[1], r[2], r[3])
       /\ UNCHANGED history
    \/ /\ Idle
       /\ \E f \in CompileFiltersInputs, sf \in CompileSpecialInputs, r \in CompileRangeInputs :
             getExomeNullomersHandler(<<"1", "1">>, <<>>, <<>>, f, sf, r[1], r[2], r[3])
       /\ UNCHANGED history
    \/ /\ Idle
       /\ \E f \in CompileFiltersInputs, sf \in CompileSpecialInputs, r \in CompileRangeInputs :
             getExomeNullomersStatsHandler(<<"1", "1">>, f, sf, <<>>, <<>>, r[1], r[2], r[3])
       /\ UNCHANGED history

SpecCompile == InitCompile /\ [][NextCompile]_vars

(***************************************************************************)
(* Properties of the filter compiler (SpecCompile)                         *)
(***************************************************************************)
FilterRequest == req.endpoint \in FilterEndpoints

\* the directives of the specialFilters parameter of the request
Directives ==
    IF req.specialFilters = <<>> THEN <<>> ELSE Split(req.specialFilters, <<"|">>)

\* the directive is at_least_X_distinct_patients;N with one integer N > 0
RecognizedDirective(part) ==
    LET sf == Split(part, <<";">>)
    IN  /\ Len(sf) = 2
        /\ sf[1] = Str_at_least_X_distinct_patients
        /\ PositiveIntegerText(sf[2])

RecognizedDirectives == SelectSeq(Directives, RecognizedDirective)

\* the special-filter predicates of a WHERE clause, in order
SpecialClauses(where) == SelectSeq(where, LAMBDA cl : cl.channel = "special")

\* C21: a directive of specialFilters contributes a predicate only when its
\* name is at_least_X_distinct_patients and its one argument is an integer
\* above 0, one predicate per such directive with that threshold; any other
\* directive contributes none and, on its own, causes no error response.
C21_OnlyRecognizedDirectivesCompile ==
    FilterRequest =>
        /\ \A i \in 1..Len(queries) :
              /\ Len(SpecialClauses(queries[i].where)) = Len(RecognizedDirectives)
              /\ \A k \in 1..Len(RecognizedDirectives) :
                    SpecialClauses(queries[i].where)[k].sub.n =
                        Atoi(Split(RecognizedDirectives[k], <<";">>)[2]).val
        /\ (RecognizedDirectives = <<>> /\ req.filters = <<>> /\ ~RangeRequested)
              => resp.status = StatusOK

\* an unknown directive next to a recognized one: the exome query holds the
\* one predicate of the recognized directive and is answered
C21_Witness ==
    /\ req.endpoint = "get_exome_nullomers"
    /\ Len(Directives) = 2
    /\ Len(RecognizedDirectives) = 1
    /\ Len(queries) = 2
    /\ Len(SpecialClauses(queries[2].where)) = 1
    /\ SpecialClauses(queries[2].where)[1].sub.n = 2
    /\ resp.status = StatusOK


\* p1 AND p2 AND ... of a non-empty list of predicates
RECURSIVE Conjunction(_)
Conjunction(ps) ==
    IF Len(ps) = 1 THEN ps[1] ELSE ps[1] \o <<" ", "A", "N", "D", " ">> \o Conjunction(Tail(ps))

\* range and legacy predicates come first, special predicates last
ChannelRank(cl) == IF cl.channel = "special" THEN 2 ELSE 1

GroupByInputs ==
    { <<>>, <<"O", "r", "g", "a", "n">>, <<" ", "O", "r", "g", "a", "n", " ", ",", " ", ",", "A", "F">>, <<",">>, <<"C", "a", "n", "c", "e", "r", "_", "T", "y", "p", "e", ",", "O", "r", "g", "a", "n">>, <<"A", "F", ",", "A", "F">>, <<"H", "u", "g", "o", "_", "S", "y", "m", "b", "o", "l">> }

StatsTopNInputs == { <<>>, <<"1">>, <<"2">>, <<"0">>, <<"-", "3">>, <<"x">>, <<"2", ".", "5">> }

StatsFiltersInputs == { <<>>, <<"A", "F", " ", ">", " ", "0", ".", "0", "1">> }

InitStats == Init

NextStats ==
    \/ /\ Idle
       /\ \E g \in GroupByInputs, n \in StatsTopNInputs, f \in StatsFiltersInputs :
             getNullomersStatsHandler(<<"1", "1">>, f, <<>>, g, n, <<>>, <<>>, <<>>)
       /\ UNCHANGED history
    \/ /\ Idle
       /\ \E g \in GroupByInputs, n \in StatsTopNInputs, f \in StatsFiltersInputs :
             getExomeNullomersStatsHandler(<<"1", "1">>, f, <<>>, g, n, <<>>, <<>>, <<>>)
       /\ UNCHANGED history

SpecStats == InitStats /\ [][NextStats]_vars

(***************************************************************************)
(* Properties of the grouping parameters (SpecStats)                       *)
(***************************************************************************)
StatsRequest == req.endpoint \in {"get_nullomers_stats", "get_exome_nullomers_stats"}

\* the comma-separated tokens of groupBy, trimmed, the empty ones left out
RECURSIVE TrimmedTokens(_)
TrimmedTokens(pieces) ==
    IF pieces = <<>> THEN <<>>
    ELSE (IF TrimSpace(Head(pieces)) = <<>> THEN <<>> ELSE <<TrimSpace(Head(pieces))>>)
         \o TrimmedTokens(Tail(pieces))

\* nullomers_created, then the tokens, separated by ", "
RECURSIVE ColumnList(_)
ColumnList(tokens) ==
    IF tokens = <<>> THEN Col_nullomers_created
    ELSE ColumnList(SubSeq(tokens, 1, Len(tokens) - 1)) \o <<",", " ">> \o tokens[Len(tokens)]

\* C23: the stats query selects and groups by the same columns,
\* nullomers_created and then the trimmed non-empty groupBy tokens in order;
\* its SELECT list ends with the count named total_count, it orders by
\* total_count descending and its LIMIT is topN when that is an integer
\* above 0 and 10 otherwise; the answer holds at most that many rows, by
\* non-increasing total_count.
C23_StatsQueryShape ==
    StatsRequest =>
        \A i \in 1..Len(queries) :
            LET q    == queries[i]
                list == ColumnList(TrimmedTokens(Split(req.groupBy, <<",">>)))
            IN  /\ q.groupByClause = list
                /\ q.selectClause = list \o <<",", " ", "C", "O", "U", "N", "T", "(">> \o <<"*">> \o <<")", " ", "A", "S", " ", "t", "o", "t", "a", "l", "_", "c", "o", "u", "n", "t">>
                /\ q.orderBy = <<"t", "o", "t", "a", "l", "_", "c", "o", "u", "n", "t", " ", "D", "E", "S", "C">>
                /\ q.limit = (IF PositiveIntegerText(req.topN) THEN Atoi(req.topN).val ELSE 10)
                /\ resp.status = StatusOK =>
                      /\ Len(resp.body.data) <= q.limit
                      /\ \A j, k \in 1..Len(resp.body.data) :
                            j < k => resp.body.data[j].total_count >= resp.body.data[k].total_count

\* a groupBy with blanks and an empty token, cut to the one top row
C23_Witness ==
    /\ req.endpoint = "get_nullomers_stats"
    /\ req.groupBy = <<" ", "O", "r", "g", "a", "n", " ", ",", " ", ",", "A", "F">>
    /\ req.topN = <<"1">>
    /\ Len(queries) = 1
    /\ queries[1].groupByClause = <<"n", "u", "l", "l", "o", "m", "e", "r", "s", "_", "c", "r", "e", "a", "t", "e", "d", ",", " ", "O", "r", "g", "a", "n", ",", " ", "A", "F">>
    /\ resp.status = StatusOK
    /\ Len(resp.body.data) = 1


\* the request reaches the legacy channel: filters is given and the range
\* parameters are not
LegacyRequested == FilterRequest /\ req.filters # <<>> /\ ~RangeRequested

\* the pieces of filters between " AND " that have three fields or more
AcceptedConditions ==
    SelectSeq(Split(req.filters, <<" ", "A", "N", "D", " ">>), LAMBDA cond : Len(Fields(cond)) >= 3)

\* the legacy predicates of a WHERE clause, as text, in order
LegacyPredicates(where) ==
    LET cls == SelectSeq(where, LAMBDA cl : cl.channel = "legacy")
    IN  [k \in 1..Len(cls) |-> ClauseText(cls[k])]

\* the letters, digits and underscores of a token
Sanitized(token) == SelectSeq(token, IsIdentChar)

NumericAllowList ==
    { Col_donor_age_at_diagnosis, Col_gc_content, Col_AF, <<"A", "F", "_", "e", "a", "s">>, <<"A", "F", "_", "a", "f", "r">>, <<"A", "F", "_", "f", "i", "n">>,
      <<"A", "F", "_", "a", "m", "i">>, <<"A", "F", "_", "a", "m", "r">>, <<"A", "F", "_", "n", "f", "e">>, <<"A", "F", "_", "s", "a", "s">>, <<"A", "F", "_", "a", "s", "j">> }

\* C24: for each legacy condition with three fields or more, the WHERE text
\* of every query holds CAST("column" AS FLOAT), the operator and a value
\* when the sanitized first token is in the numeric allow-list, and holds
\* the condition itself, character for character, when it is not.
C24_CastOnlyAllowListed ==
    LegacyRequested =>
        \A i \in 1..Len(queries) :
            \A k \in 1..Len(AcceptedConditions) :
                LET cond == AcceptedConditions[k]
                    col  == Sanitized(Fields(cond)[1])
                IN  IF col \in NumericAllowList
                    THEN Index(queries[i].finalWhere,
                               <<"C", "A", "S", "T", "(", "\"">> \o col \o <<"\"", " ", "A", "S", " ", "F", "L", "O", "A", "T", ")", " ">> \o Fields(cond)[2] \o <<" ">>) # 0
                    ELSE Index(queries[i].finalWhere, cond) # 0


\* number of places where the text holds the piece
Occurrences(text, piece) == Cardinality({ i \in 1..Len(text) : HasPrefixAt(text, i, piece) })

\* C25: a legacy predicate holds no parenthesis but the pair of each CAST(
\* ... ) wrapper the compiler wrote.
C25_NoClientParenthesis ==
    LegacyRequested =>
        \A i \in 1..Len(queries) :
            LET ps == LegacyPredicates(queries[i].where)
            IN  \A k \in 1..Len(ps) :
                    Occurrences(ps[k], <<"(">>) + Occurrences(ps[k], <<")">>)
                        = 2 * Occurrences(ps[k], <<"C", "A", "S", "T", "(">>)

\* the WHERE predicates the handler of the request compiles from the given
\* filters string and the special filters of the request, without a range
WhereOfFilters(filters) ==
    IF req.endpoint \in {"get_nullomers", "get_nullomers_stats"}
    THEN genomeWhereClauses(req.length, filters, req.specialFilters, <<>>, <<>>, <<>>)
    ELSE exomeWhereParts(req.length, filters, req.specialFilters)

\* C26: a legacy condition with fewer than three fields contributes no
\* predicate and causes no error response: the WHERE clause is the one of
\* the filters string without these conditions, and a request with no other
\* condition and no special filter is answered 200.
C26_ShortConditionsDropped ==
    LegacyRequested =>
        /\ \A i \in 1..Len(queries) :
              queries[i].where = WhereOfFilters(Join(AcceptedConditions, <<" ", "A", "N", "D", " ">>))
        /\ (AcceptedConditions = <<>> /\ req.specialFilters = <<>>)
              => resp.status = StatusOK

\* the token holds a quote, a semicolon or a parenthesis, or nothing that
\* the sanitizer keeps
InvalidColumnToken(token) ==
    \/ \E i \in 1..Len(token) : token[i] \in {"\"", "'", ";", "(", ")"}
    \/ Sanitized(token) = <<>>

\* C27: a legacy condition whose column token holds a quote, a semicolon or
\* a parenthesis, or sanitizes to the empty string, contributes no
\* predicate: the WHERE clause is the one of the filters string without
\* these conditions.
C27_InvalidColumnDropped ==
    LegacyRequested =>
        \A i \in 1..Len(queries) :
            queries[i].where =
                WhereOfFilters(Join(SelectSeq(Split(req.filters, <<" ", "A", "N", "D", " ">>),
                                              LAMBDA cond :
                                                  ~(/\ Len(Fields(cond)) >= 3
                                                    /\ InvalidColumnToken(Fields(cond)[1]))),
                                    <<" ", "A", "N", "D", " ">>))

\* C29: every field of a legacy condition with three fields or more, from
\* the fourth on, is found in the WHERE text of every query.
C29_NoFieldTruncated ==
    LegacyRequested =>
        \A i \in 1..Len(queries) :
            \A k \in 1..Len(AcceptedConditions) :
                \A j \in 4..Len(Fields(AcceptedConditions[k])) :
                    Index(queries[i].finalWhere, Fields(AcceptedConditions[k])[j]) # 0


(***************************************************************************)
(* The int of the paging arithmetic: 64 bits in two's complement, kept as  *)
(* four limbs of 16 bits, lowest first                                     *)
(***************************************************************************)
LimbBase == 2 ^ 16

Zero64 == <<0, 0, 0, 0>>

\* math.MaxInt64 and math.MinInt64
MaxInt64 == <<LimbBase - 1, LimbBase - 1, LimbBase - 1, (LimbBase \div 2) - 1>>
MinInt64 == <<0, 0, 0, LimbBase \div 2>>

\* x * m + c over limbs, m and c below 2^15: one limb longer than x
RECURSIVE MulAdd(_, _, _)
MulAdd(x, m, c) ==
    IF x = <<>> THEN <<c>>
    ELSE <<(x[1] * m + c) % LimbBase>> \o MulAdd(Tail(x), m, (x[1] * m + c) \div LimbBase)

\* the value of a run of decimal digits (at most 20), in five limbs
RECURSIVE Magnitude(_, _)
Magnitude(digits, acc) ==
    IF digits = <<>> THEN acc
    ELSE Magnitude(Tail(digits), SubSeq(MulAdd(acc, 10, DigitVal(Head(digits))), 1, 5))

\* is the sign bit set
IsNegative64(x) == x[4] >= LimbBase \div 2

\* 0 - x in 64 bits
Negate64(x) == SubSeq(MulAdd([i \in 1..4 |-> LimbBase - 1 - x[i]], 1, 1), 1, 4)

\* strconv.Atoi on a 64-bit platform: [ok, val]; a syntax error gives 0, a
\* value out of range gives the nearest bound, both with ok = FALSE
Atoi64(s) ==
    IF s = <<>> THEN [ok |-> FALSE, val |-> Zero64]
    ELSE LET signed == Head(s) = "-" \/ Head(s) = "+"
             body   == IF signed THEN Tail(s) ELSE s
             mag    == Magnitude(body, <<0, 0, 0, 0, 0>>)
             low    == SubSeq(mag, 1, 4)
         IN  IF body = <<>> \/ ~AllDigits(body) THEN [ok |-> FALSE, val |-> Zero64]
             ELSE IF Head(s) = "-"
             THEN (IF mag[5] = 0 /\ (~IsNegative64(low) \/ low = MinInt64)
                   THEN [ok |-> TRUE, val |-> Negate64(low)]
                   ELSE [ok |-> FALSE, val |-> MinInt64])
             ELSE (IF mag[5] = 0 /\ ~IsNegative64(low)
                   THEN [ok |-> TRUE, val |-> low]
                   ELSE [ok |-> FALSE, val |-> MaxInt64])

\* offset := page * limit: the product modulo 2^64
Mul64(x, m) == SubSeq(MulAdd(x, m, 0), 1, 4)

\* if p, err := strconv.Atoi(pageStr); err == nil && p >= 0 { page = p }
genomePage64(pageStr) ==
    IF Atoi64(pageStr).ok /\ ~IsNegative64(Atoi64(pageStr).val)
    THEN Atoi64(pageStr).val ELSE Zero64

\* page, _ := strconv.Atoi(c.DefaultQuery("page", "0"))
exomePage64(pageStr) == Atoi64(pageStr).val

\* LIMIT %d OFFSET %d of the data query
OffsetQuery(page, limit) ==
    [kind |-> "page", page |-> page, limit |-> limit, offset |-> Mul64(page, limit)]

\* the paging arithmetic of getNullomersHandler
GenomeOffset ==
    /\ req.endpoint = "get_nullomers"
    /\ queries = <<>>
    /\ queries' = <<OffsetQuery(genomePage64(req.page), genomeLimit(req.limit))>>
    /\ UNCHANGED <<db, req, resp, history, sequence, gc>>

\* the paging arithmetic of getExomeNullomersHandler
ExomeOffset ==
    /\ req.endpoint = "get_exome_nullomers"
    /\ queries = <<>>
    /\ queries' = <<OffsetQuery(exomePage64(req.page), exomeLimit(req.limit))>>
    /\ UNCHANGED <<db, req, resp, history, sequence, gc>>

(***************************************************************************)
(* Specification of the paging arithmetic (SpecOffset)                     *)
(***************************************************************************)
OffsetPageInputs ==
    { <<>>, <<"0">>, <<"1">>, <<"3">>, <<"-", "1">>, <<"x">>, <<"9", "2", "2", "3", "3", "7", "2", "0", "3", "6", "8", "5", "4", "7", "7">>,
      <<"9", "2", "2", "3", "3", "7", "2", "0", "3", "6", "8", "5", "4", "7", "7", "5", "8", "0">>, <<"9", "2", "2", "3", "3", "7", "2", "0", "3", "6", "8", "5", "4", "7", "7", "5", "8", "1">>,
      <<"1", "8", "4", "4", "6", "7", "4", "4", "0", "7", "3", "7", "0", "9", "5", "5", "1", "6", "2">>, <<"4", "6", "1", "1", "6", "8", "6", "0", "1", "8", "4", "2", "7", "3", "8", "7", "9", "0", "4">>, <<"9", "2", "2", "3", "3", "7", "2", "0", "3", "6", "8", "5", "4", "7", "7", "5", "8", "0", "7">>,
      <<"9", "2", "2", "3", "3", "7", "2", "0", "3", "6", "8", "5", "4", "7", "7", "5", "8", "0", "8">> }

OffsetLimitInputs == { <<>>, <<"1">>, <<"2">>, <<"4">>, <<"1", "0">>, <<"1", "0", "0", "0", "0">>, <<"0">>, <<"1", "0", "0", "0", "1">> }

InitOffset ==
    /\ db = SampleDb
    /\ req \in { [endpoint |-> e, page |-> p, limit |-> l] :
                   e \in {"get_nullomers", "get_exome_nullomers"},
                   p \in OffsetPageInputs, l \in OffsetLimitInputs }
    /\ resp = NoResponse
    /\ queries = <<>>
    /\ history = <<>>
    /\ sequence = <<>>
    /\ gc = 0

NextOffset ==
    \/ GenomeOffset
    \/ ExomeOffset

SpecOffset == InitOffset /\ [][NextOffset]_vars

\* the page is the numeral of an integer from 0 to 2^63 - 1
AcceptedPage(text) ==
    /\ text # <<>>
    /\ AllDigits(text)
    /\ Magnitude(text, <<0, 0, 0, 0, 0>>)[5] = 0
    /\ Magnitude(text, <<0, 0, 0, 0, 0>>)[4] < LimbBase \div 2

\* the limit is the numeral of an integer in 1..10000
AcceptedLimit(text) ==
    /\ text # <<>>
    /\ AllDigits(text)
    /\ DigitsValue(text, 0) >= 1
    /\ DigitsValue(text, 0) <= 10000

\* C28: for a page from 0 to 2^63 - 1 and a limit in 1..10000, the OFFSET of
\* the data query is the product page * limit, not reduced modulo 2^64,
\* and is not negative.
C28_OffsetIsExactProduct ==
    (queries # <<>> /\ AcceptedPage(req.page) /\ AcceptedLimit(req.limit)) =>
        /\ ~IsNegative64(queries[1].offset)
        /\ queries[1].offset \o <<0, 0>> =
              MulAdd(Magnitude(req.page, <<0, 0, 0, 0, 0>>), DigitsValue(req.limit, 0), 0)


(***************************************************************************)
(* Specification of concurrent requests (SpecConc): every client has one   *)
(* request in its own goroutine; a handler runs between its queries        *)
(* interleaved with the others. Here req, resp and queries are per client, *)
(* queries holds the handler's local variables, history is the order in    *)
(* which the shared database handle received the queries.                  *)
(***************************************************************************)
MaxClients == 2    \* requests in flight

Clients == 1..MaxClients

ConcFiltersInputs == { <<>>, <<"A", "F", " ", ">", " ", "0", ".", "1">> }

ConcLimitInputs == { <<>>, <<"1">> }

ConcLengthInputs == { <<>>, <<"1", "1">> }

\* the local variables of a goroutine that has no request yet
NotStarted ==
    [pc |-> "idle", from |-> <<>>, where |-> <<>>, limit |-> 0, offset |-> 0,
     issued |-> <<>>, rows |-> {}, totalCount |-> 0]

InitConc ==
    /\ db = SampleDb
    /\ req = [c \in Clients |-> NoRequest]
    /\ resp = [c \in Clients |-> <<>>]
    /\ queries = [c \in Clients |-> NotStarted]
    /\ history = <<>>
    /\ sequence = <<>>
    /\ gc = 0

\* the join, the WHERE predicates, LIMIT and OFFSET a handler builds from
\* its own request
ConcFrom(r) ==
    IF r.endpoint = "get_nullomers" THEN GenomeBaseFrom(r.length) ELSE ExomeBaseFrom(r.length)

ConcWhere(r) ==
    IF r.endpoint = "get_nullomers"
    THEN genomeWhereClauses(r.length, r.filters, r.specialFilters,
                            r.column, r.filterType, r.value)
    ELSE exomeWhereParts(r.length, r.filters, r.specialFilters)

ConcLimit(r) ==
    IF r.endpoint = "get_nullomers" THEN genomeLimit(r.limit) ELSE exomeLimit(r.limit)

ConcOffset(r) ==
    IF r.endpoint = "get_nullomers" THEN genomePage(r.page) * genomeLimit(r.limit)
    ELSE exomePage(r.page) * exomeLimit(r.limit)

ConcRequest(endpoint, length, limitStr, filters) ==
    [endpoint |-> endpoint, length |-> length, page |-> <<>>,
     limit |-> limitStr, filters |-> filters, specialFilters |-> <<>>,
     column |-> <<>>, filterType |-> <<>>, value |-> <<>>]

\* the joins and predicates the requests of this specification lead to
ConcQueries ==
    { <<ConcFrom(r), ConcWhere(r)>> :
        r \in { ConcRequest(e, <<"1", "1">>, <<>>, f) :
                  e \in {"get_nullomers", "get_exome_nullomers"}, f \in ConcFiltersInputs } }

\* what the engine answers to each of them, worked out once
EngineAnswers ==
    [d \in {SampleDb}, q \in ConcQueries |-> WhereOutcomes(d, q[1], q[2])]

\* the router hands a request to a new goroutine, whose handler reads its
\* parameters and builds its clauses before the first query
Receive(c, endpoint, length, limitStr, filters) ==
    LET r == ConcRequest(endpoint, length, limitStr, filters)
    IN  /\ req[c] = NoRequest
        /\ req' = [req EXCEPT ![c] = r]
        /\ queries' = [queries EXCEPT ![c] =
                         IF length = <<>> THEN [@ EXCEPT !.pc = "started"]
                         ELSE [@ EXCEPT !.pc = "started", !.from = ConcFrom(r),
                                        !.where = ConcWhere(r), !.limit = ConcLimit(r),
                                        !.offset = ConcOffset(r)]]
        /\ UNCHANGED <<db, resp, history, sequence, gc>>


\* c.JSON(...) followed by return
Return(c, response, local) ==
    /\ resp' = [resp EXCEPT ![c] = Append(@, response)]
    /\ queries' = [queries EXCEPT ![c] = [local EXCEPT !.pc = "returned"]]

\* the database handle receives a query of client c
Logged(c, query, count) ==
    Append(history, [client |-> c, kind |-> query.kind, count |-> count])

\* the length test
RejectStep(c) ==
    /\ queries[c].pc = "started"
    /\ req[c].length = <<>>
    /\ Return(c, BadRequest, queries[c])
    /\ UNCHANGED <<db, req, history, sequence, gc>>

\* db.QueryRow(countQuery).Scan(&totalCount)
CountStep(c) ==
    /\ queries[c].pc = "started"
    /\ req[c].length # <<>>
    /\ LET from       == queries[c].from
           where      == queries[c].where
           countQuery == Query("count", from, where, 0, 0)
           issued     == Append(queries[c].issued, countQuery)
       IN  \E out \in (IF Unbound("count", from, where) THEN {Failed}
                       ELSE EngineAnswers[db, <<from, where>>]) :
              IF ~out.ok
              THEN /\ Return(c, ServerError, [queries[c] EXCEPT !.issued = issued])
                   /\ history' = Logged(c, countQuery, 0)
              ELSE /\ queries' = [queries EXCEPT ![c] =
                                    [@ EXCEPT !.pc = "counted", !.issued = issued,
                                              !.rows = out.rows,
                                              !.totalCount = Cardinality(out.rows)]]
                   /\ history' = Logged(c, countQuery, Cardinality(out.rows))
                   /\ resp' = resp
    /\ UNCHANGED <<db, req, sequence, gc>>

\* a totalCount that every handler writes to and reads from one place
totalCountOf_shared(c) ==
    LET counts == SelectSeq(history, LAMBDA e : e.kind = "count")
    IN  counts[Len(counts)].count

\* var totalCount int, a local of the handler
totalCountOf(c) == queries[c].totalCount

\* db.Query(pageQuery), the row loop and the answer
PageStep(c) ==
    /\ queries[c].pc = "counted"
    /\ LET from      == queries[c].from
           where     == queries[c].where
           pageQuery == Query("page", from, where, queries[c].limit, queries[c].offset)
           local     == [queries[c] EXCEPT !.issued = Append(@, pageQuery)]
       IN  /\ \E pg \in (IF Unbound("page", from, where) THEN {Failed}
                         ELSE PageOutcomes(queries[c].rows, queries[c].limit,
                                           queries[c].offset)) :
                 IF ~pg.ok THEN Return(c, ServerError, local)
                 ELSE Return(c, Response(StatusOK, [data |-> pg.rows,
                                                    totalCount |-> totalCountOf(c)]),
                             local)
           /\ history' = Logged(c, pageQuery, 0)
    /\ UNCHANGED <<db, req, sequence, gc>>

NextConc ==
    \/ \E c \in Clients, length \in ConcLengthInputs, l \in ConcLimitInputs,
          f \in ConcFiltersInputs : Receive(c, "get_nullomers", length, l, f)
    \/ \E c \in Clients, length \in ConcLengthInputs, l \in ConcLimitInputs,
          f \in ConcFiltersInputs : Receive(c, "get_exome_nullomers", length, l, f)
    \/ \E c \in Clients : RejectStep(c)
    \/ \E c \in Clients : CountStep(c)
    \/ \E c \in Clients : PageStep(c)

\* the next step of the handler of client c
HandlerStep(c) == RejectStep(c) \/ CountStep(c) \/ PageStep(c)

\* a goroutine that can take its next step takes it
SpecConc ==
    /\ InitConc
    /\ [][NextConc]_vars
    /\ \A c \in Clients : WF_vars(HandlerStep(c))

\* the answers the request gets when it is the only one: those of the
\* handler run in one piece
AloneResponses(r) ==
    { a.resp : a \in (IF r.length = <<>> THEN Rejected
                      ELSE FilteredAnswers(ConcFrom(r), ConcWhere(r),
                                           ConcLimit(r), ConcOffset(r))) }

\* what holds of every client at every moment
IsolatedRequests ==
    /\ db = SampleDb
    /\ \A c \in Clients :
          /\ Len(resp[c]) = (IF queries[c].pc = "returned" THEN 1 ELSE 0)
          /\ resp[c] # <<>> => resp[c][1] \in AloneResponses(req[c])

\* C30: in every interleaving the handlers leave the database as it is, a
\* request has no response before its handler returns and exactly one
\* after, that response is one the request gets when handled alone, and
\* every request received is answered.
C30_RequestsDoNotInterfere ==
    /\ []IsolatedRequests
    /\ \A c \in Clients : (req[c] # NoRequest) ~> (Len(resp[c]) = 1)

\* two requests with different filters, both answered 200, the queries of
\* the second issued between the two queries of the first
C30_Witness ==
    /\ \A c \in Clients : Len(resp[c]) = 1 /\ resp[c][1].status = StatusOK
    /\ req[1].filters # req[2].filters
    /\ resp[1][1].body.totalCount # resp[2][1].body.totalCount
    /\ Len(history) = 4
    /\ history[1].client = 1 /\ history[2].client = 2
    /\ history[3].client = 2 /\ history[4].client = 1

====
